---- MODULE Spec2Model ----
(***************************************************************************)
(* Embedding pipeline of atabot-v2: EmbeddingQueue (add_batch and the      *)
(* _process_queue coroutine), EmbeddingService (generate_batch_embeddings, *)
(* generate_embedding, the in-memory cache) and RateLimiter.               *)
(*                                                                         *)
(* The program runs on one asyncio event loop: a coroutine runs alone      *)
(* until it reaches an await that suspends.  `cur` names the coroutine     *)
(* that holds the loop in the middle of such a segment (NoTask when the    *)
(* loop is free to start another callback).                                *)
(***************************************************************************)
EXTENDS Integers, Sequences, FiniteSets, TLC

\* ------------------------------------------------------------------ bounds
MaxBatches == 2        \* add_batch calls in one behaviour
AskedCap == 2          \* occurrences of a text in requests that are told apart
SuperBatchMax == 3     \* texts per super-batch (the source packs 120)
ServiceBatchSize == 2  \* texts per provider request (the source sends 8)
Dim == 10              \* components of a provider vector (the source: 1024)

RlCallers == 3         \* coroutines that call wait_if_needed
RlMaxCalls == 2        \* calls of wait_if_needed by one coroutine
RlSoloCalls == 3       \* calls of wait_if_needed by a coroutine alone
RlMaxClock == 62       \* seconds of clock the rate limiter is followed for
WaitTimeoutMax == 2    \* longest timeout, in seconds, given to wait_for_batch
MaxRows == 3           \* rows of the source table
PageSize == 2          \* settings.SYNC_BATCH_SIZE, rows in a page of a sync
MaxRuns == 2           \* sync requests
MaxEvents == 1         \* rewrites of source rows and failures met by the syncs
MaxChats == 2          \* chat requests handled one after the other
MaxChanges == 3        \* real-time changes of source rows
MaxTables == 3         \* tables of the schema that a schema sync goes through
CacheCeiling == 2      \* entries a cache may hold (the source: 1000)

\* ------------------------------------------------------- program constants
MaxRequests == 2       \* RateLimiter(max_requests=2, ...)
WindowSeconds == 60    \* RateLimiter(..., window_seconds=60)
MaxCacheSize == 1000   \* EmbeddingService._max_cache_size
MaxAttempts == 3       \* stop_after_attempt(3) on generate_embedding
ENABLE_CACHE == TRUE   \* settings.ENABLE_CACHE

\* ------------------------------------------------------------------ values
None == <<>>           \* Python None; an empty list is falsy in the same tests
NoTask == 0            \* no coroutine holds the event loop

Min(a, b) == IF a < b THEN a ELSE b

Blank == ""
Alpha == "alpha"
Beta == "beta"
Texts == {Blank, Alpha, Beta}

\* `t and t.strip()` is false
IsBlank(t) == t = Blank

\* hashlib.md5(text.encode()).hexdigest(): the queue's cache key
TextHash(t) == <<"md5", t>>

\* md5(f"{text}:{input_type}"): the service's cache key
GetCacheKey(t, input_type) == <<"md5", t \o ":" \o input_type>>

\* md5(f"{datetime.now().isoformat()}_{len(texts)}")
BatchId(now, texts) == <<"md5", now, Len(texts)>>

\* vectors the provider may return
Dense == [i \in 1..Dim |-> 1]
Sparse == [i \in 1..Dim |-> IF i <= Dim \div 10 THEN 1 ELSE 0]
Zero == [i \in 1..Dim |-> 0]
Empty == <<>>
ProviderVectors == {Dense, Sparse, Zero, Empty}

NonZeroCount(v) == Cardinality({i \in DOMAIN v : v[i] # 0})

\* EmbeddingService._validate_embedding; n > len * 0.1 is 10 n > len
ValidateEmbedding_M(embedding) ==
    IF Len(embedding) = 0 THEN FALSE
    ELSE 10 * NonZeroCount(embedding) >= Len(embedding)

ValidateEmbedding(embedding) ==
    IF Len(embedding) = 0 THEN FALSE
    ELSE 10 * NonZeroCount(embedding) > Len(embedding)

\* the queue's own test at lines 173-176 of embedding_queue.py
QueueAccepts(embedding) ==
    /\ embedding # None
    /\ Len(embedding) > 0
    /\ 10 * NonZeroCount(embedding) > Len(embedding)

\* dict assignment d[k] = v
Put(d, k, v) == [x \in DOMAIN d \cup {k} |-> IF x = k THEN v ELSE d[x]]

EmptyMap == [x \in {} |-> None]

\* submissions offered to add_batch
LongTexts == [i \in 1..(2 * SuperBatchMax + 1) |-> IF i % 3 = 0 THEN Beta ELSE Alpha]
Submissions ==
    { <<Alpha>>, <<Blank>>, <<Alpha, Beta>>, LongTexts }

\* submissions offered while hybrid search runs beside the queue
SearchSubmissions == { <<Alpha>>, [i \in 1..(SuperBatchMax + 1) |-> Alpha] }

VARIABLES
    queue,          \* EmbeddingQueue.queue
    processing,     \* EmbeddingQueue.processing
    cache,          \* EmbeddingQueue.cache: text hash -> embedding
    batch_status,   \* EmbeddingQueue.batch_status
    batch_results,  \* EmbeddingQueue.batch_results
    svc_cache,      \* EmbeddingService._cache, in insertion order
    svc_cache_size, \* EmbeddingService._cache_size
    clock,          \* datetime.now() as seen by add_batch
    proc,           \* the _process_queue tasks created so far
    qry,            \* the generate_embedding calls of hybrid search
    cur,            \* the _process_queue task holding the event loop, or NoTask
    hist,           \* history: what the provider was asked and answered
    rl,             \* a RateLimiter, its clock and its callers
    wt,             \* a caller of EmbeddingQueue.wait_for_batch
    db,             \* the database: a source table and the atabot schema
    sync,           \* SyncService: its job registries and the running sync
    srch,           \* a call of SearchService.hybrid_search
    chat            \* a request handled by ChatOrchestrator.process_query

vars == <<queue, processing, cache, batch_status, batch_results, svc_cache,
          svc_cache_size, clock, proc, qry, cur, hist, rl, wt, db, sync, srch, chat>>

queue_vars == <<queue, processing, cache, batch_status, batch_results,
                svc_cache, svc_cache_size, clock, proc, qry, cur, hist,
                wt, db, sync, srch, chat>>

\* ------------------------------------------------- EmbeddingService._cache
SvcHas(c, key) == \E i \in 1..Len(c) : c[i].key = key

SvcGet(c, key) == c[CHOOSE i \in 1..Len(c) : c[i].key = key].emb

\* EmbeddingService._add_to_cache; s = [cache, size]
AddToCache(s, max, key, embedding) ==
    LET evict == s.size >= max /\ s.cache # <<>>
        c1 == IF evict THEN Tail(s.cache) ELSE s.cache
        n1 == IF evict THEN s.size - 1 ELSE s.size
        c2 == IF SvcHas(c1, key)
              THEN [i \in 1..Len(c1) |->
                       IF c1[i].key = key THEN [key |-> key, emb |-> embedding]
                       ELSE c1[i]]
              ELSE Append(c1, [key |-> key, emb |-> embedding])
    IN [cache |-> c2, size |-> n1 + 1]

\* ------------------------------------------------------------ task records
NoProc == [pc |-> "unborn", batch_texts |-> <<>>, batch_hashes |-> <<>>,
           batch_ids |-> <<>>, all_embeddings |-> <<>>, batch_num |-> 0,
           uncached |-> <<>>]

NoQuery == [pc |-> "idle", text |-> Blank, attempt |-> 0, result |-> "none"]

\* seen is the batch status at the moment of the return
NoWait == [pc |-> "idle", batch_id |-> None, timeout |-> 0, elapsed |-> 0,
           result |-> "none", seen |-> "none"]

\* the database and the sync service before anything is stored or requested
NoDb == <<>>

NoSync == <<>>

ProcIds == 1..MaxBatches
RlCallerIds == 1..RlCallers
QueryIds == {1}        \* one hybrid search beside the queue

\* pcs at which a _process_queue task is inside its `while self.queue` loop
\* no search has been asked for
NoSearch == [pc |-> "idle", query |-> <<>>, agg |-> "none", result |-> "none",
             failed |-> FALSE, logged |-> FALSE]

\* no chat request has arrived
NoChat == [pc |-> "idle", n |-> 0, endpoint |-> "", session |-> <<"", 0>>,
           query |-> <<>>, contexts |-> {}, created |-> FALSE, appended |-> 0,
           blocked |-> 0, calls |-> {}, template |-> FALSE, hint |-> "",
           sql |-> <<>>, sql_from |-> "none", executed |-> <<>>,
           response |-> [kind |-> "none", rejected |-> FALSE]]

LoopPcs == {"loop", "gen", "rl_wait", "embed", "backoff", "svc_sleep",
            "store", "q_sleep"}

Init ==
    /\ queue = <<>>
    /\ processing = FALSE
    /\ cache = EmptyMap
    /\ batch_status = EmptyMap
    /\ batch_results = EmptyMap
    /\ svc_cache = <<>>
    /\ svc_cache_size = 0
    /\ clock = 0
    /\ proc = [p \in ProcIds |-> NoProc]
    /\ qry = [q \in QueryIds |-> NoQuery]
    /\ cur = NoTask
    /\ hist = [asked |-> [t \in Texts |-> 0], bad |-> {},
               parts |-> EmptyMap, done |-> EmptyMap,
               ncompleted |-> EmptyMap, refused |-> FALSE]
    /\ rl = [now |-> 0, requests |-> <<>>, granted |-> <<>>, slept |-> FALSE,
             callers |-> [c \in RlCallerIds |-> [pc |-> "idle", wake |-> 0, calls |-> 0]]]
    /\ wt = NoWait
    /\ db = NoDb
    /\ sync = NoSync
    /\ srch = NoSearch
    /\ chat = NoChat

\* ------------------------------------------------- EmbeddingQueue.add_batch
\* asyncio.create_task(self._process_queue()): the next task record
CreateTask(pr) ==
    LET p == CHOOSE x \in ProcIds :
                 /\ pr[x].pc = "unborn"
                 /\ \A y \in ProcIds : y < x => pr[y].pc # "unborn"
    IN [pr EXCEPT ![p].pc = "scheduled"]

\* line 40: `text_hash not in self.cache`
InCache_M(text_hash) == FALSE

InCache(text_hash) == text_hash \in DOMAIN cache

\* line 67: `if not self.processing`
NeedsProcessor_M ==
    ~processing /\ \A p \in ProcIds : proc[p].pc = "unborn"

NeedsProcessor == ~processing

AddBatch(texts) ==
    /\ cur = NoTask
    /\ clock < MaxBatches
    /\ LET batch_id == BatchId(clock, texts)
           text_hashes == [i \in 1..Len(texts) |-> TextHash(texts[i])]
           unique_texts == SelectSeq(texts, LAMBDA t : ~InCache(TextHash(t)))
           unique_hashes == [i \in 1..Len(unique_texts) |-> TextHash(unique_texts[i])]
       IN /\ batch_results' = Put(batch_results, batch_id,
                 [text_hashes |-> text_hashes, total |-> Len(texts),
                  to_process |-> Len(unique_texts),
                  cached |-> Len(texts) - Len(unique_texts)])
          /\ IF unique_texts # <<>>
             THEN /\ batch_status' = Put(batch_status, batch_id, "pending")
                  /\ queue' = Append(queue, [batch_id |-> batch_id,
                                             texts |-> unique_texts,
                                             text_hashes |-> unique_hashes])
                  /\ proc' = IF NeedsProcessor THEN CreateTask(proc) ELSE proc
             ELSE /\ batch_status' = Put(batch_status, batch_id, "completed")
                  /\ UNCHANGED <<queue, proc>>
          /\ hist' = [hist EXCEPT
                 !.parts = Put(@, batch_id, 0),
                 !.done = Put(@, batch_id, 0),
                 !.ncompleted = Put(@, batch_id, IF unique_texts = <<>> THEN 1 ELSE 0)]
    /\ clock' = clock + 1
    /\ UNCHANGED <<processing, cache, svc_cache, svc_cache_size, qry, cur, rl, wt, db, sync, srch, chat>>

\* ------------------------------------------ EmbeddingQueue._process_queue
\* line 112: the entry guard
AlreadyProcessing_M == FALSE

AlreadyProcessing == processing

ProcessStart(p) ==
    /\ cur = NoTask
    /\ proc[p].pc = "scheduled"
    /\ IF AlreadyProcessing
       THEN /\ proc' = [proc EXCEPT ![p].pc = "done"]
            /\ hist' = [hist EXCEPT !.refused = TRUE]
            /\ UNCHANGED <<processing, cur>>
       ELSE /\ processing' = TRUE
            /\ proc' = [proc EXCEPT ![p].pc = "loop"]
            /\ cur' = p
            /\ UNCHANGED hist
    /\ UNCHANGED <<queue, cache, batch_status, batch_results, svc_cache,
                   svc_cache_size, clock, qry, rl, wt, db, sync, srch, chat>>

\* line 132: how many texts of the head batch still fit
CanTake_M(taken, n) == n

CanTake(taken, n) == Min(SuperBatchMax - taken, n)

\* lines 149-151: what stays in the queue of a batch taken in part
Remaining_M(seq, can_take) == SubSeq(seq, can_take, Len(seq))

Remaining(seq, can_take) == SubSeq(seq, can_take + 1, Len(seq))

\* lines 128-159: draw texts from the head of the queue;
\* s = [q, texts, hashes, ids, status]
RECURSIVE Assemble(_)
Assemble(s) ==
    IF s.q = <<>> \/ Len(s.texts) >= SuperBatchMax THEN s
    ELSE LET batch == Head(s.q)
             n == Len(batch.texts)
             can_take == CanTake(Len(s.texts), n)
             seen == \E i \in 1..Len(s.ids) : s.ids[i] = batch.batch_id
         IN IF can_take = n
            THEN Assemble([q |-> Tail(s.q),
                           texts |-> s.texts \o batch.texts,
                           hashes |-> s.hashes \o batch.text_hashes,
                           ids |-> Append(s.ids, batch.batch_id),
                           status |-> Put(s.status, batch.batch_id, "processing")])
            ELSE [q |-> <<[batch EXCEPT
                              !.texts = Remaining(batch.texts, can_take),
                              !.text_hashes = Remaining(batch.text_hashes, can_take)]>>
                          \o Tail(s.q),
                  texts |-> s.texts \o SubSeq(batch.texts, 1, can_take),
                  hashes |-> s.hashes \o SubSeq(batch.text_hashes, 1, can_take),
                  ids |-> IF seen THEN s.ids ELSE Append(s.ids, batch.batch_id),
                  status |-> IF seen THEN s.status
                             ELSE Put(s.status, batch.batch_id, "processing")]


InSeq(x, seq) == \E i \in 1..Len(seq) : seq[i] = x

\* line 120 `while self.queue`, the assembly, and the entry into
\* _generate_embeddings_with_retry -> generate_batch_embeddings (no await
\* lies between them); on an empty queue the `finally` at 216-217
ProcessLoop(p) ==
    /\ cur = p
    /\ proc[p].pc = "loop"
    /\ IF queue = <<>>
       THEN /\ processing' = FALSE
            /\ proc' = [proc EXCEPT ![p] = [NoProc EXCEPT !.pc = "done"]]
            /\ cur' = NoTask
            /\ UNCHANGED <<queue, batch_status, hist>>
       ELSE LET a == Assemble([q |-> queue, texts |-> <<>>, hashes |-> <<>>,
                               ids |-> <<>>, status |-> batch_status])
            IN /\ queue' = a.q
               /\ batch_status' = a.status
               /\ proc' = [proc EXCEPT ![p] =
                      [pc |-> IF a.texts # <<>> THEN "gen" ELSE "loop",
                       batch_texts |-> a.texts, batch_hashes |-> a.hashes,
                       batch_ids |-> a.ids,
                       all_embeddings |-> [i \in 1..Len(a.texts) |-> None],
                       batch_num |-> 0, uncached |-> <<>>]]
               /\ hist' = [hist EXCEPT
                      !.parts = [b \in DOMAIN @ |->
                                    IF InSeq(b, a.ids) THEN @[b] + 1 ELSE @[b]]]
               /\ UNCHANGED <<processing, cur>>
    /\ UNCHANGED <<cache, batch_results, svc_cache, svc_cache_size, clock, qry, rl, wt, db, sync, srch, chat>>

\* ------------------------------ EmbeddingService.generate_batch_embeddings
\* line 202: the positions of the non-blank texts, in order
RECURSIVE ValidIndices(_, _)
ValidIndices(texts, i) ==
    IF i > Len(texts) THEN <<>>
    ELSE IF IsBlank(texts[i]) THEN ValidIndices(texts, i + 1)
         ELSE <<i>> \o ValidIndices(texts, i + 1)

\* line 212
TotalBatches(texts) ==
    (Len(ValidIndices(texts, 1)) + ServiceBatchSize - 1) \div ServiceBatchSize

\* line 220-222: the positions handled by request number batch_num
BatchIndices(texts, batch_num) ==
    LET valid == ValidIndices(texts, 1)
        batch_start == batch_num * ServiceBatchSize
        batch_end == Min(batch_start + ServiceBatchSize, Len(valid))
    IN SubSeq(valid, batch_start + 1, batch_end)

\* occurrences of text t among the positions idxs of texts
Occurrences(t, texts, idxs) ==
    Cardinality({i \in 1..Len(idxs) : texts[idxs[i]] = t})

\* the request leaves for the provider (lines 242-255)
Issued(h, texts, idxs) ==
    [h EXCEPT !.asked = [t \in Texts |->
                            Min(@[t] + Occurrences(t, texts, idxs), AskedCap)]]

\* RateLimiter.wait_if_needed as this specification sees it: it returns at
\* once or after a sleep; which one depends on the clock, which SpecRL models
MayWait == BOOLEAN

\* lines 283-299: request number batch_num is over; sleep 21 seconds before
\* the next one, or return all_embeddings after the last
AfterRequest(me) ==
    IF me.batch_num < TotalBatches(me.batch_texts) - 1
    THEN [me EXCEPT !.pc = "svc_sleep", !.uncached = <<>>]
    ELSE [me EXCEPT !.pc = "store", !.batch_num = @ + 1, !.uncached = <<>>]

\* the task that keeps the event loop once the record is me
Holder(p, me) == IF me.pc = "store" THEN p ELSE NoTask

\* lines 219-240: one pass of `for batch_num in range(total_batches)` up to
\* the first await, or the return of all_embeddings at line 299
ServiceBatch(p, wait) ==
    /\ cur = p
    /\ proc[p].pc = "gen"
    /\ LET me == proc[p]
           texts == me.batch_texts
       IN IF me.batch_num >= TotalBatches(texts)
          THEN /\ wait = FALSE
               /\ proc' = [proc EXCEPT ![p].pc = "store"]
               /\ UNCHANGED <<cur, hist>>
          ELSE LET idxs == BatchIndices(texts, me.batch_num)
                   hit(i) == /\ ENABLE_CACHE
                             /\ InSeq(i, idxs)
                             /\ SvcHas(svc_cache, GetCacheKey(texts[i], "document"))
                   filled == [i \in 1..Len(texts) |->
                                 IF hit(i)
                                 THEN SvcGet(svc_cache, GetCacheKey(texts[i], "document"))
                                 ELSE me.all_embeddings[i]]
                   uncached == SelectSeq(idxs, LAMBDA i : filled[i] = None)
               IN IF uncached # <<>>
                  THEN /\ proc' = [proc EXCEPT ![p].all_embeddings = filled,
                                               ![p].uncached = uncached,
                                               ![p].pc = IF wait THEN "rl_wait" ELSE "embed"]
                       /\ cur' = NoTask
                       /\ hist' = IF wait THEN hist ELSE Issued(hist, texts, uncached)
                  ELSE /\ wait = FALSE
                       /\ proc' = [proc EXCEPT ![p] =
                              AfterRequest([me EXCEPT !.all_embeddings = filled])]
                       /\ cur' = Holder(p, proc'[p])
                       /\ UNCHANGED hist
    /\ UNCHANGED <<queue, processing, cache, batch_status, batch_results,
                   svc_cache, svc_cache_size, clock, qry, rl, wt, db, sync, srch, chat>>

\* the sleep inside wait_if_needed ends; the request is sent
RateLimitWake(p) ==
    /\ cur = NoTask
    /\ proc[p].pc = "rl_wait"
    /\ proc' = [proc EXCEPT ![p].pc = "embed"]
    /\ hist' = Issued(hist, proc[p].batch_texts, proc[p].uncached)
    /\ UNCHANGED <<queue, processing, cache, batch_status, batch_results,
                   svc_cache, svc_cache_size, clock, qry, cur, rl, wt, db, sync, srch, chat>>


\* what self.client.embed can do with a request of n texts: return one
\* vector per text in input order, return nothing, or raise
ProviderResponses(n) ==
    {[kind |-> "ok", embeddings |-> e, msg |-> ""] : e \in [1..n -> ProviderVectors]}
    \cup {[kind |-> "empty", embeddings |-> <<>>, msg |-> ""]}
    \cup {[kind |-> "error", embeddings |-> <<>>, msg |-> m] :
             m \in {"rate limit", "api key", "timeout"}}

\* `"rate limit" in str(e).lower()`
IsRateLimit(msg) == msg = "rate limit"

\* lines 258-270: zip(uncached, response.embeddings) from position k on;
\* st = [all, cache, size]
RECURSIVE Absorb(_, _, _, _, _)
Absorb(st, texts, uncached, embeddings, k) ==
    IF k > Len(uncached) \/ k > Len(embeddings) THEN st
    ELSE LET orig_idx == uncached[k]
             embedding == embeddings[k]
         IN IF ValidateEmbedding(embedding)
            THEN LET c == IF ENABLE_CACHE
                          THEN AddToCache([cache |-> st.cache, size |-> st.size],
                                          MaxCacheSize,
                                          GetCacheKey(texts[orig_idx], "document"),
                                          embedding)
                          ELSE [cache |-> st.cache, size |-> st.size]
                 IN Absorb([all |-> [st.all EXCEPT ![orig_idx] = embedding],
                            cache |-> c.cache, size |-> c.size],
                           texts, uncached, embeddings, k + 1)
            ELSE Absorb(st, texts, uncached, embeddings, k + 1)

\* the texts of a request that came back without a valid vector
Unanswered(texts, uncached, resp) ==
    {texts[uncached[k]] : k \in {j \in 1..Len(uncached) :
        \/ resp.kind # "ok"
        \/ ~ValidateEmbedding(resp.embeddings[j])}}

\* lines 257-281: the executor call returns or raises
ProviderReturn(p, resp) ==
    /\ cur = NoTask
    /\ proc[p].pc = "embed"
    /\ LET me == proc[p]
           st == IF resp.kind = "ok"
                 THEN Absorb([all |-> me.all_embeddings, cache |-> svc_cache,
                              size |-> svc_cache_size],
                             me.batch_texts, me.uncached, resp.embeddings, 1)
                 ELSE [all |-> me.all_embeddings, cache |-> svc_cache,
                       size |-> svc_cache_size]
           sleeps == resp.kind = "error" /\ IsRateLimit(resp.msg)
       IN /\ svc_cache' = st.cache
          /\ svc_cache_size' = st.size
          /\ proc' = [proc EXCEPT ![p] =
                 IF sleeps THEN [me EXCEPT !.pc = "backoff", !.uncached = <<>>]
                 ELSE AfterRequest([me EXCEPT !.all_embeddings = st.all])]
          /\ cur' = Holder(p, proc'[p])
          /\ hist' = [hist EXCEPT !.bad = @ \cup Unanswered(me.batch_texts, me.uncached, resp)]
    /\ UNCHANGED <<queue, processing, cache, batch_status, batch_results,
                   clock, qry, rl, wt, db, sync, srch, chat>>

\* line 281: asyncio.sleep(60) after a rate-limit error ends
BackoffWake(p) ==
    /\ cur = NoTask
    /\ proc[p].pc = "backoff"
    /\ proc' = [proc EXCEPT ![p] = AfterRequest(@)]
    /\ cur' = Holder(p, proc'[p])
    /\ UNCHANGED <<queue, processing, cache, batch_status, batch_results,
                   svc_cache, svc_cache_size, clock, qry, hist, rl, wt, db, sync, srch, chat>>

\* line 292: the 21-second pause between two requests ends
ServiceSleepWake(p) ==
    /\ cur = NoTask
    /\ proc[p].pc = "svc_sleep"
    /\ proc' = [proc EXCEPT ![p].pc = "gen", ![p].batch_num = @ + 1]
    /\ cur' = p
    /\ UNCHANGED <<queue, processing, cache, batch_status, batch_results,
                   svc_cache, svc_cache_size, clock, qry, hist, rl, wt, db, sync, srch, chat>>

\* -------------------------------- EmbeddingQueue._process_queue, continued
\* lines 172-184: zip(batch_hashes, embeddings) from position k on
RECURSIVE StoreEmbeddings(_, _, _, _)
StoreEmbeddings(c, hashes, embeddings, k) ==
    IF k > Len(hashes) \/ k > Len(embeddings) THEN c
    ELSE IF QueueAccepts(embeddings[k])
         THEN StoreEmbeddings(Put(c, hashes[k], embeddings[k]), hashes, embeddings, k + 1)
         ELSE StoreEmbeddings(c, hashes, embeddings, k + 1)

\* line 269: a hash missing from the cache is excused
OriginallyCached(batch_info) == batch_info.cached > 0

\* lines 258-260: the batch still has texts in the queue
StillQueued_M(batch_id, q) == FALSE

StillQueued(batch_id, q) == \E i \in 1..Len(q) : q[i].batch_id = batch_id

\* EmbeddingQueue._is_batch_complete
IsBatchComplete(batch_id, q, c, results) ==
    IF StillQueued(batch_id, q) THEN FALSE
    ELSE IF batch_id \notin DOMAIN results THEN TRUE
         ELSE LET batch_info == results[batch_id]
              IN \A i \in 1..Len(batch_info.text_hashes) :
                     \/ batch_info.text_hashes[i] \in DOMAIN c
                     \/ OriginallyCached(batch_info)

\* lines 168-218: _generate_embeddings_with_retry has returned (its callee
\* catches every provider error, so the retry at 241-251 and the `except`
\* at 195-208 are never entered); store, update statuses, then pause 21
\* seconds if the queue holds more, else leave the loop through `finally`
Store(p) ==
    /\ cur = p
    /\ proc[p].pc = "store"
    /\ LET me == proc[p]
           c == StoreEmbeddings(cache, me.batch_hashes, me.all_embeddings, 1)
           completes(b) == InSeq(b, me.batch_ids)
                           /\ IsBatchComplete(b, queue, c, batch_results)
       IN /\ cache' = c
          /\ batch_status' = [b \in DOMAIN batch_status \cup
                                    {x \in DOMAIN hist.parts : completes(x)} |->
                                 IF completes(b) THEN "completed" ELSE batch_status[b]]
          /\ hist' = [hist EXCEPT
                 !.done = [b \in DOMAIN @ |->
                              IF InSeq(b, me.batch_ids) THEN @[b] + 1 ELSE @[b]],
                 !.ncompleted = [b \in DOMAIN @ |->
                              IF completes(b) THEN @[b] + 1 ELSE @[b]]]
          /\ IF queue # <<>>
             THEN /\ proc' = [proc EXCEPT ![p] = [NoProc EXCEPT !.pc = "q_sleep"]]
                  /\ UNCHANGED processing
             ELSE /\ proc' = [proc EXCEPT ![p] = [NoProc EXCEPT !.pc = "done"]]
                  /\ processing' = FALSE
          /\ cur' = NoTask
    /\ UNCHANGED <<queue, batch_results, svc_cache, svc_cache_size,
                   clock, qry, rl, wt, db, sync, srch, chat>>

\* line 214: the 21-second pause between super-batches ends
QueueSleepWake(p) ==
    /\ cur = NoTask
    /\ proc[p].pc = "q_sleep"
    /\ proc' = [proc EXCEPT ![p].pc = "loop"]
    /\ cur' = p
    /\ UNCHANGED <<queue, processing, cache, batch_status, batch_results,
                   svc_cache, svc_cache_size, clock, qry, hist, rl, wt, db, sync, srch, chat>>


\* --------------------- EmbeddingService.generate_embedding (hybrid search)
QueryTexts == {Blank, Alpha}

\* lines 105-123 of embeddings.py: one invocation of the decorated function
\* up to its first await, or its return
QueryEnter(me, text, wait) ==
    IF IsBlank(text)
    THEN [me EXCEPT !.pc = "done", !.text = text, !.result = "None"]
    ELSE IF ENABLE_CACHE /\ SvcHas(svc_cache, GetCacheKey(text, "query"))
         THEN [me EXCEPT !.pc = "done", !.text = text, !.result = "embedding"]
         ELSE [me EXCEPT !.pc = IF wait THEN "rl_wait" ELSE "embed", !.text = text]

\* search_service.py line 80: hybrid_search asks for a query embedding
QueryStart(q, text, wait) ==
    /\ cur = NoTask
    /\ qry[q].pc = "idle"
    /\ qry' = [qry EXCEPT ![q] = QueryEnter([qry[q] EXCEPT !.attempt = 1], text, wait)]
    /\ wait => qry'[q].pc = "rl_wait"
    /\ UNCHANGED <<queue, processing, cache, batch_status, batch_results,
                   svc_cache, svc_cache_size, clock, proc, cur, hist, rl, wt, db, sync, srch, chat>>

QueryRateLimitWake(q) ==
    /\ cur = NoTask
    /\ qry[q].pc = "rl_wait"
    /\ qry' = [qry EXCEPT ![q].pc = "embed"]
    /\ UNCHANGED <<queue, processing, cache, batch_status, batch_results,
                   svc_cache, svc_cache_size, clock, proc, cur, hist, rl, wt, db, sync, srch, chat>>

\* lines 139-179: the executor call returns or raises
QueryReturn(q, resp) ==
    /\ cur = NoTask
    /\ qry[q].pc = "embed"
    /\ LET valid == resp.kind = "ok" /\ ValidateEmbedding(resp.embeddings[1])
           c == IF valid /\ ENABLE_CACHE
                THEN AddToCache([cache |-> svc_cache, size |-> svc_cache_size],
                                MaxCacheSize, GetCacheKey(qry[q].text, "query"),
                                resp.embeddings[1])
                ELSE [cache |-> svc_cache, size |-> svc_cache_size]
       IN /\ svc_cache' = c.cache
          /\ svc_cache_size' = c.size
          /\ qry' = [qry EXCEPT ![q] =
                 IF valid THEN [@ EXCEPT !.pc = "done", !.result = "embedding"]
                 ELSE IF resp.kind = "error" /\ IsRateLimit(resp.msg)
                      THEN [@ EXCEPT !.pc = "backoff"]
                      ELSE [@ EXCEPT !.pc = "done", !.result = "None"]]
    /\ UNCHANGED <<queue, processing, cache, batch_status, batch_results,
                   clock, proc, cur, hist, rl, wt, db, sync, srch, chat>>

\* lines 169-170 and the @retry decorator: sleep(30) ends, the error is
\* raised again, tenacity stops after MaxAttempts attempts
QueryBackoffWake(q) ==
    /\ cur = NoTask
    /\ qry[q].pc = "backoff"
    /\ qry' = [qry EXCEPT ![q] =
           IF @.attempt >= MaxAttempts
           THEN [@ EXCEPT !.pc = "done", !.result = "RetryError"]
           ELSE [@ EXCEPT !.pc = "retry_wait"]]
    /\ UNCHANGED <<queue, processing, cache, batch_status, batch_results,
                   svc_cache, svc_cache_size, clock, proc, cur, hist, rl, wt, db, sync, srch, chat>>

\* tenacity's wait ends and the function is invoked again
QueryRetry(q, wait) ==
    /\ cur = NoTask
    /\ qry[q].pc = "retry_wait"
    /\ qry' = [qry EXCEPT ![q] =
           QueryEnter([@ EXCEPT !.attempt = @ + 1], @.text, wait)]
    /\ wait => qry'[q].pc = "rl_wait"
    /\ UNCHANGED <<queue, processing, cache, batch_status, batch_results,
                   svc_cache, svc_cache_size, clock, proc, cur, hist, rl, wt, db, sync, srch, chat>>

\* ------------------------------------------------------------ RateLimiter
\* lines 28-31 and 45-48: keep the timestamps younger than the window
CleanOld(requests, now) ==
    SelectSeq(requests, LAMBDA req_time : now - req_time < WindowSeconds)

\* min(self.requests)
Oldest(requests) ==
    CHOOSE t \in {requests[i] : i \in 1..Len(requests)} :
        \A i \in 1..Len(requests) : t <= requests[i]

\* line 51: the admission is granted and its timestamp recorded
Admit(r, c, requests, now) ==
    [r EXCEPT !.requests = Append(requests, now),
              !.granted = Append(@, now),
              !.callers[c].pc = "idle"]

\* line 41: asyncio.sleep(wait_time + 1) ends at this second
WakeTime_M(now, wait_time) == now + wait_time - 1

WakeTime(now, wait_time) == now + wait_time + 1

\* RateLimiter.wait_if_needed up to its sleep (lines 25-41) or, when no
\* sleep is needed, to its end
WaitIfNeededCall(c) ==
    /\ rl.callers[c].pc = "idle"
    /\ LET now == rl.now
           cleaned == CleanOld(rl.requests, now)
           r == [rl EXCEPT !.callers[c].calls = @ + 1, !.slept = FALSE]
       IN IF Len(cleaned) >= MaxRequests
          THEN LET wait_time == WindowSeconds - (now - Oldest(cleaned))
               IN IF wait_time > 0
                  THEN rl' = [r EXCEPT !.requests = cleaned,
                                       !.callers[c].pc = "sleeping",
                                       !.callers[c].wake = WakeTime(now, wait_time)]
                  ELSE rl' = Admit(r, c, cleaned, now)
          ELSE rl' = Admit(r, c, cleaned, now)
    /\ UNCHANGED queue_vars

\* one of several coroutines calls wait_if_needed
WaitIfNeeded(c) ==
    /\ rl.callers[c].calls < RlMaxCalls
    /\ WaitIfNeededCall(c)

\* the only coroutine there is calls wait_if_needed
SoloWaitIfNeeded ==
    /\ rl.callers[1].calls < RlSoloCalls
    /\ WaitIfNeededCall(1)

\* lines 43-51: the sleep is over; clean again and record the request
WaitIfNeededWake(c) ==
    /\ rl.callers[c].pc = "sleeping"
    /\ rl.now >= rl.callers[c].wake
    /\ rl' = Admit([rl EXCEPT !.callers[c].wake = 0, !.slept = TRUE], c,
                   CleanOld(rl.requests, rl.now), rl.now)
    /\ UNCHANGED queue_vars

\* a second passes
Tick ==
    /\ rl.now < RlMaxClock
    /\ rl' = [rl EXCEPT !.now = @ + 1]
    /\ UNCHANGED queue_vars

\* ------------------------------------------- EmbeddingQueue.wait_for_batch
\* line 82: self.batch_status.get(batch_id, 'unknown')
StatusOf(batch_id) ==
    IF batch_id \in DOMAIN batch_status THEN batch_status[batch_id] ELSE "unknown"

\* line 84: `status == 'completed'`
IsCompleted_M(status) == status \in {"completed", "processing"}

IsCompleted(status) == status = "completed"

\* lines 80-97: one pass of the polling loop, up to its sleep or its return
WaitCheck(me) ==
    LET status == StatusOf(me.batch_id)
    IN IF me.elapsed >= me.timeout
       THEN [me EXCEPT !.pc = "returned", !.result = "False", !.seen = status]
       ELSE IF IsCompleted(status)
       THEN [me EXCEPT !.pc = "returned", !.result = "True", !.seen = status]
       ELSE IF status = "failed"
       THEN [me EXCEPT !.pc = "returned", !.result = "False", !.seen = status]
       ELSE IF status = "unknown"
       THEN [me EXCEPT !.pc = "returned", !.result = "False", !.seen = status]
       ELSE [me EXCEPT !.pc = "sleep"]

\* wait_for_batch is called with an id that add_batch has returned
WaitForBatch(batch_id, timeout) ==
    /\ cur = NoTask
    /\ wt.pc = "idle"
    /\ batch_id \in DOMAIN hist.parts
    /\ wt' = WaitCheck([NoWait EXCEPT !.batch_id = batch_id, !.timeout = timeout])
    /\ UNCHANGED <<queue, processing, cache, batch_status, batch_results,
                   svc_cache, svc_cache_size, clock, proc, qry, cur, hist, rl,
                   db, sync, srch, chat>>

\* line 94: asyncio.sleep(1) ends, a second later
WaitWake ==
    /\ cur = NoTask
    /\ wt.pc = "sleep"
    /\ wt' = WaitCheck([wt EXCEPT !.elapsed = @ + 1])
    /\ UNCHANGED <<queue, processing, cache, batch_status, batch_results,
                   svc_cache, svc_cache_size, clock, proc, qry, cur, hist, rl,
                   db, sync, srch, chat>>

\* EmbeddingQueue.clear_cache, called by the monitoring endpoint
ClearCache ==
    /\ cur = NoTask
    /\ cache' = EmptyMap
    /\ batch_status' = EmptyMap
    /\ batch_results' = EmptyMap
    /\ UNCHANGED <<queue, processing, svc_cache, svc_cache_size, clock, proc,
                   qry, cur, hist, rl, wt, db, sync, srch, chat>>

\* ---------------------------------------------------------- specification
Next ==
    \/ \E texts \in Submissions : AddBatch(texts)
    \/ \E p \in ProcIds : ProcessStart(p)
    \/ \E p \in ProcIds : ProcessLoop(p)
    \/ \E p \in ProcIds, wait \in MayWait : ServiceBatch(p, wait)
    \/ \E p \in ProcIds : RateLimitWake(p)
    \/ \E p \in ProcIds : \E resp \in ProviderResponses(Len(proc[p].uncached)) :
           ProviderReturn(p, resp)
    \/ \E p \in ProcIds : BackoffWake(p)
    \/ \E p \in ProcIds : ServiceSleepWake(p)
    \/ \E p \in ProcIds : Store(p)
    \/ \E p \in ProcIds : QueueSleepWake(p)

\* the queue together with the query embeddings of hybrid search
NextSearch ==
    \/ \E texts \in SearchSubmissions : AddBatch(texts)
    \/ \E p \in ProcIds : ProcessStart(p)
    \/ \E p \in ProcIds : ProcessLoop(p)
    \/ \E p \in ProcIds, wait \in MayWait : ServiceBatch(p, wait)
    \/ \E p \in ProcIds : RateLimitWake(p)
    \/ \E p \in ProcIds : \E resp \in ProviderResponses(Len(proc[p].uncached)) :
           ProviderReturn(p, resp)
    \/ \E p \in ProcIds : BackoffWake(p)
    \/ \E p \in ProcIds : ServiceSleepWake(p)
    \/ \E p \in ProcIds : Store(p)
    \/ \E p \in ProcIds : QueueSleepWake(p)
    \/ \E q \in QueryIds, text \in QueryTexts, wait \in MayWait : QueryStart(q, text, wait)
    \/ \E q \in QueryIds : QueryRateLimitWake(q)
    \/ \E q \in QueryIds : \E resp \in ProviderResponses(1) : QueryReturn(q, resp)
    \/ \E q \in QueryIds : QueryBackoffWake(q)
    \/ \E q \in QueryIds, wait \in MayWait : QueryRetry(q, wait)

Spec == Init /\ [][Next]_vars

SpecSearch == Init /\ [][NextSearch]_vars

\* the rate limiter with several coroutines calling it
NextRL ==
    \/ \E c \in RlCallerIds : WaitIfNeeded(c)
    \/ \E c \in RlCallerIds : WaitIfNeededWake(c)
    \/ Tick

SpecRL == Init /\ [][NextRL]_vars

\* the rate limiter with a single coroutine calling it
NextRLSolo ==
    \/ SoloWaitIfNeeded
    \/ WaitIfNeededWake(1)
    \/ Tick

SpecRLSolo == Init /\ [][NextRLSolo]_vars

\* a provider that always answers, with vectors of any kind (line 257)
VectorResponses(n) == {r \in ProviderResponses(n) : r.kind = "ok"}

\* the queue in front of a provider whose only failure is an invalid vector
NextVectors ==
    \/ \E texts \in Submissions : AddBatch(texts)
    \/ \E p \in ProcIds : ProcessStart(p)
    \/ \E p \in ProcIds : ProcessLoop(p)
    \/ \E p \in ProcIds, wait \in MayWait : ServiceBatch(p, wait)
    \/ \E p \in ProcIds : RateLimitWake(p)
    \/ \E p \in ProcIds : \E resp \in VectorResponses(Len(proc[p].uncached)) :
           ProviderReturn(p, resp)
    \/ \E p \in ProcIds : ServiceSleepWake(p)
    \/ \E p \in ProcIds : Store(p)
    \/ \E p \in ProcIds : QueueSleepWake(p)

SpecVectors == Init /\ [][NextVectors]_vars

\* a vector of the wrong length: one component fewer than the configured
\* dimension, none of them zero
Short == [i \in 1..(Dim - 1) |-> 1]

\* a provider that always answers, with vectors of the configured length
\* or shorter ones (line 257 takes response.embeddings as they come)
DimResponses(n) ==
    {[kind |-> "ok", embeddings |-> e, msg |-> ""] : e \in [1..n -> {Dense, Short}]}

\* the queue in front of a provider that may answer with another dimension
NextDims ==
    \/ \E texts \in Submissions : AddBatch(texts)
    \/ \E p \in ProcIds : ProcessStart(p)
    \/ \E p \in ProcIds : ProcessLoop(p)
    \/ \E p \in ProcIds, wait \in MayWait : ServiceBatch(p, wait)
    \/ \E p \in ProcIds : RateLimitWake(p)
    \/ \E p \in ProcIds : \E resp \in DimResponses(Len(proc[p].uncached)) :
           ProviderReturn(p, resp)
    \/ \E p \in ProcIds : ServiceSleepWake(p)
    \/ \E p \in ProcIds : Store(p)
    \/ \E p \in ProcIds : QueueSleepWake(p)

SpecDims == Init /\ [][NextDims]_vars


\* a provider that answers with valid vectors or raises a rate-limit error
\* (line 279)
RateLimitResponses(n) ==
    {r \in ProviderResponses(n) :
        \/ r.kind = "ok" /\ \A i \in 1..n : r.embeddings[i] = Dense
        \/ r.kind = "error" /\ IsRateLimit(r.msg)}

\* the queue in front of a provider whose only failure is the rate limit
NextRateLimit ==
    \/ \E texts \in Submissions : AddBatch(texts)
    \/ \E p \in ProcIds : ProcessStart(p)
    \/ \E p \in ProcIds : ProcessLoop(p)
    \/ \E p \in ProcIds, wait \in MayWait : ServiceBatch(p, wait)
    \/ \E p \in ProcIds : RateLimitWake(p)
    \/ \E p \in ProcIds : \E resp \in RateLimitResponses(Len(proc[p].uncached)) :
           ProviderReturn(p, resp)
    \/ \E p \in ProcIds : BackoffWake(p)
    \/ \E p \in ProcIds : ServiceSleepWake(p)
    \/ \E p \in ProcIds : Store(p)
    \/ \E p \in ProcIds : QueueSleepWake(p)

SpecRateLimit == Init /\ [][NextRateLimit]_vars

\* a provider that answers with a valid vector or raises an error that is
\* neither a rate limit nor an authentication error (lines 171-179)
TransientResponses(n) ==
    {r \in ProviderResponses(n) :
        \/ r.kind = "ok" /\ \A i \in 1..n : r.embeddings[i] = Dense
        \/ r.kind = "error" /\ r.msg = "timeout"}

\* the queue and the query embeddings in front of a provider whose only
\* failure is transient
NextTransient ==
    \/ \E texts \in Submissions : AddBatch(texts)
    \/ \E p \in ProcIds : ProcessStart(p)
    \/ \E p \in ProcIds : ProcessLoop(p)
    \/ \E p \in ProcIds, wait \in MayWait : ServiceBatch(p, wait)
    \/ \E p \in ProcIds : RateLimitWake(p)
    \/ \E p \in ProcIds : \E resp \in TransientResponses(Len(proc[p].uncached)) :
           ProviderReturn(p, resp)
    \/ \E p \in ProcIds : ServiceSleepWake(p)
    \/ \E p \in ProcIds : Store(p)
    \/ \E p \in ProcIds : QueueSleepWake(p)
    \/ \E q \in QueryIds, text \in QueryTexts, wait \in MayWait : QueryStart(q, text, wait)
    \/ \E q \in QueryIds : QueryRateLimitWake(q)
    \/ \E q \in QueryIds : \E resp \in TransientResponses(1) : QueryReturn(q, resp)

SpecTransient == Init /\ [][NextTransient]_vars


\* submissions offered while a caller waits for a batch
WaitSubmissions == { <<Alpha>> }

WaitTimeouts == {0, WaitTimeoutMax}

\* a provider that answers every request, with a valid vector or with zeros
WaitResponses(n) ==
    {r \in ProviderResponses(n) :
        r.kind = "ok" /\ \A i \in 1..n : r.embeddings[i] \in {Dense, Zero}}

\* the queue with a caller of wait_for_batch and the monitoring endpoint;
\* the rate limiter lets every request through at once, and a super-batch
\* of one-text submissions is one request when it fits ServiceBatchSize
NextWait ==
    \/ \E texts \in WaitSubmissions : AddBatch(texts)
    \/ \E p \in ProcIds : ProcessStart(p)
    \/ \E p \in ProcIds : ProcessLoop(p)
    \/ \E p \in ProcIds : ServiceBatch(p, FALSE)
    \/ \E p \in ProcIds : \E resp \in WaitResponses(Len(proc[p].uncached)) :
           ProviderReturn(p, resp)
    \/ \E p \in ProcIds : Store(p)
    \/ \E p \in ProcIds : QueueSleepWake(p)
    \/ \E b \in DOMAIN hist.parts, timeout \in WaitTimeouts : WaitForBatch(b, timeout)
    \/ WaitWake
    \/ ClearCache

SpecWait == Init /\ [][NextWait]_vars

\* ============================================================ SyncService
\* One schema "S" with one source table "T".  A source row r carries its
\* version (its content) and the value of its update column.  The database
\* calls that follow one another without an embedding in between are taken
\* as one step; between the pages of a sync the clock and the source table
\* may change.
NULL == -1                       \* SQL NULL in a timestamp column

RowIds == 1..MaxRows

TableKinds == {"pk", "fk"}      \* what the column the code takes as key is

\* the searchable text of a row: it renders every column of the row
Text(r, ver) == <<"row", r, ver>>

\* the value of the column that _get_primary_key / _extract_row_id pick:
\* unique when it is the primary key, shared by rows when the first column
\* named *_id is a foreign key
RowKey(kind, r) == IF kind = "pk" THEN r ELSE (r + 1) \div 2

\* sync_table and the MCP handler run SyncService.sync_table
ViaSyncTable(entry) == entry \in {"table", "mcp"}

\* line 450 `f"{schema}_{table}_{pk}"` and line 1106 `str(row[col])`
EmbId(entry, kind, r) ==
    <<IF ViaSyncTable(entry) THEN "" ELSE "S_T_", RowKey(kind, r)>>

\* entry points and the modes they pass on
Requests ==
    { <<"table", "full">>, <<"table", "incremental">>,
      <<"batch", "full">>, <<"batch", "incremental">>,
      <<"initial", "full">>,
      <<"mcp", "full">>, <<"mcp", "incremental">> }

\* uuid4 of request n, by the function that draws it
JobId(n, who) == <<n, who>>

NoStatus == [exists |-> FALSE, sync_status |-> "pending",
             last_sync_completed |-> NULL, rows_synced |-> 0,
             last_error |-> ""]

\* an Embedding row left in the store by an earlier sync of a row that the
\* source table no longer has
StaleEmbedding ==
    [id \in {<<"S_T_", 0>>} |->
        [table_name |-> "T", content |-> Text(0, 1), embedding |-> Dense,
         stamp |-> 0]]

\* the Embedding row that an earlier sync_table of another table "U" of the
\* schema stored for its row with key 1 (line 1103: the id is `str(row[col])`)
OtherTableEmbedding ==
    [id \in {<<"", 1>>} |->
        [table_name |-> "U", content |-> <<"row of U", 1, 1>>,
         embedding |-> Dense, stamp |-> 0]]

NoRun == [pc |-> "idle", n |-> 0, entry |-> "none", mode |-> "none",
          rows |-> <<>>, offset |-> 0, total |-> 0, count |-> 0,
          outcome |-> "none", read |-> FALSE, repeat |-> FALSE,
          asked |-> FALSE, changed |-> FALSE, wrote |-> {}, missed |-> {},
          reports |-> <<>>]

\* rows of s in ascending order of key(r), ties by row id
RECURSIVE SortRows(_, _)
SortRows(s, key) ==
    IF s = {} THEN <<>>
    ELSE LET r == CHOOSE x \in s : \A y \in s :
                      \/ key[x] < key[y]
                      \/ key[x] = key[y] /\ x <= y
         IN <<r>> \o SortRows(s \ {r}, key)

\* the rows as a query returns them: row id and content at that moment
Fetched(src, ids) == [i \in 1..Len(ids) |-> [r |-> ids[i], ver |-> src[ids[i]].ver]]

\* SELECT * ... ORDER BY pk LIMIT $1 OFFSET $2 (lines 284-296, 1133-1139)
FetchPage(src, kind, limit, offset) ==
    LET all == SortRows(DOMAIN src, [r \in DOMAIN src |-> RowKey(kind, r)])
    IN Fetched(src, SubSeq(all, offset + 1, Min(offset + limit, Len(all))))

\* _fetch_batch (1133-1139): SELECT * ... LIMIT $1 OFFSET $2 with no ORDER
\* BY, which a sequential scan answers in the order of the heap
FetchBatch(src, heap, limit, offset) ==
    Fetched(src, SubSeq(heap, offset + 1, Min(offset + limit, Len(heap))))

\* lines 375-383: WHERE update_column > $1 ORDER BY update_column, or every
\* row when there is no watermark yet (lines 384-389)
ChangedSince(src, last_sync) ==
    LET s == IF last_sync = NULL THEN DOMAIN src
             ELSE {r \in DOMAIN src : src[r].updated_at > last_sync}
    IN Fetched(src, SortRows(s, [r \in s |-> src[r].updated_at]))

\* add_batch followed by wait_for_batch as a sync sees them: newly are the
\* texts that get a vector in the queue cache; the batch is 'completed' at
\* once when some text was cached, and afterwards when _is_batch_complete
\* holds; wait_for_batch may also time out.  The provider embeds every
\* text, none, or all but one
EmbedOutcomes(texts, c) ==
    LET cached == {t \in texts : TextHash(t) \in DOMAIN c}
        uncached == texts \ cached
        one == CHOOSE t \in uncached : TRUE
    IN IF uncached = {} THEN {[success |-> TRUE, newly |-> {}]}
       ELSE {o \in [success : BOOLEAN,
                    newly : {{}, uncached \ {one}, uncached}] :
                o.success => (o.newly = uncached \/ cached # {})}

\* lines 629-641: INSERT ... ON CONFLICT (id) DO UPDATE SET content,
\* embedding, metadata, updated_at
Upsert(emb, id, text, embedding, now) ==
    IF id \in DOMAIN emb
    THEN [emb EXCEPT ![id].content = text, ![id].embedding = embedding,
                     ![id].stamp = now]
    ELSE Put(emb, id, [table_name |-> "T", content |-> text,
                       embedding |-> embedding, stamp |-> now])

\* _store_embeddings: executemany over the rows from position k on
RECURSIVE StoreRows(_, _, _, _, _, _, _)
StoreRows(emb, c, entry, kind, rows, now, k) ==
    IF k > Len(rows) THEN emb
    ELSE LET text == Text(rows[k].r, rows[k].ver)
         IN StoreRows(Upsert(emb, EmbId(entry, kind, rows[k].r), text,
                             c[TextHash(text)], now),
                      c, entry, kind, rows, now, k + 1)

\* lines 475-487 and 1369-1376: the rows of the page whose text has a
\* vector in the queue cache (478-480 check it again for zeros)
SyncAccepts(entry, embedding) ==
    /\ embedding # None
    /\ Len(embedding) > 0
    /\ ViaSyncTable(entry) \/ 10 * NonZeroCount(embedding) > Len(embedding)

WithEmbedding(c, entry, rows) ==
    SelectSeq(rows, LAMBDA x :
        /\ TextHash(Text(x.r, x.ver)) \in DOMAIN c
        /\ SyncAccepts(entry, c[TextHash(Text(x.r, x.ver))]))

\* the texts of a page
PageTexts(rows) == {Text(rows[i].r, rows[i].ver) : i \in 1..Len(rows)}

\* _process_batch (416-498) and _process_batch_with_validation (1300-1386)
\* on one page, with the outcome o of the queue
ProcessBatch_M(emb, c, entry, kind, rows, now, o) ==
    LET c1 == [h \in DOMAIN c \cup {TextHash(t) : t \in o.newly} |->
                  IF h \in DOMAIN c THEN c[h] ELSE Dense]
        valid == WithEmbedding(c1, entry, rows)
    IN [cache |-> c1,
        emb |-> StoreRows(emb, c1, entry, kind, valid, now, 1),
        valid |-> valid]

ProcessBatch(emb, c, entry, kind, rows, now, o) ==
    LET c1 == [h \in DOMAIN c \cup {TextHash(t) : t \in o.newly} |->
                  IF h \in DOMAIN c THEN c[h] ELSE Dense]
        valid == IF o.success THEN WithEmbedding(c1, entry, rows) ELSE <<>>
    IN [cache |-> c1,
        emb |-> StoreRows(emb, c1, entry, kind, valid, now, 1),
        valid |-> valid]

\* _clear_table_embeddings: DELETE ... WHERE schema_name, table_name
ClearTableEmbeddings(emb) ==
    [id \in {x \in DOMAIN emb : emb[x].table_name # "T"} |-> emb[id]]

\* _ensure_sync_tracking: INSERT ... ON CONFLICT DO NOTHING
EnsureSyncTracking(st) == [st EXCEPT !.exists = TRUE]

\* _update_sync_status_correct, the branch for a failed sync at lines 726-734
FailedStatus_M(st, error, now) ==
    [st EXCEPT !.exists = TRUE, !.sync_status = "failed",
               !.last_sync_completed = now, !.last_error = error]

FailedStatus(st, error, now) ==
    [st EXCEPT !.exists = TRUE, !.sync_status = "failed", !.last_error = error]

\* _update_sync_status_correct (701-736)
UpdateSyncStatus(st, status, rows_synced, error, now) ==
    IF status = "completed"
    THEN [exists |-> TRUE, sync_status |-> "completed",
          last_sync_completed |-> now, rows_synced |-> rows_synced,
          last_error |-> ""]
    ELSE FailedStatus(st, error, now)

\* SyncService.get_job_status: self.active_jobs.get(job_id)
GetJobStatus(job_id) ==
    IF job_id \in DOMAIN sync.active_jobs THEN sync.active_jobs[job_id] ELSE "None"

sync_frame == <<queue, processing, batch_status, batch_results, svc_cache,
                svc_cache_size, clock, proc, qry, cur, hist, rl, wt,
                srch, chat>>

\* the state in which a sync specification starts: the schema has not been
\* analysed, the table holds no row or MaxRows rows
InitSync ==
    /\ queue = <<>>
    /\ processing = FALSE
    /\ cache = EmptyMap
    /\ batch_status = EmptyMap
    /\ batch_results = EmptyMap
    /\ svc_cache = <<>>
    /\ svc_cache_size = 0
    /\ clock = 0
    /\ proc = [p \in ProcIds |-> NoProc]
    /\ qry = [q \in QueryIds |-> NoQuery]
    /\ cur = NoTask
    /\ hist = [asked |-> [t \in Texts |-> 0], bad |-> {},
               parts |-> EmptyMap, done |-> EmptyMap,
               ncompleted |-> EmptyMap, refused |-> FALSE]
    /\ rl = [now |-> 0, requests |-> <<>>, granted |-> <<>>, slept |-> FALSE,
             callers |-> [c \in RlCallerIds |-> [pc |-> "idle", wake |-> 0, calls |-> 0]]]
    /\ wt = NoWait
    /\ \E n \in {0, MaxRows}, kind \in TableKinds :
          db = [now |-> 1, kind |-> kind,
                src |-> [r \in 1..n |-> [ver |-> 1, updated_at |-> 0]],
                heap |-> [i \in 1..n |-> i],
                emb |-> StaleEmbedding @@ OtherTableEmbedding,
                status |-> NoStatus,
                registered |-> FALSE]
    /\ sync = [active_jobs |-> EmptyMap, sync_jobs |-> EmptyMap,
               returned |-> {}, nreq |-> 0, run |-> NoRun,
               streak |-> 0, lost |-> {}, events |-> 0, live |-> {},
               changes |-> <<>>]
    /\ srch = NoSearch
    /\ chat = NoChat

\* an endpoint of api/v1/endpoints/sync.py (or the MCP handler) takes a
\* request: it draws a job id, hands the sync to a background task and
\* returns the id (sync.py:31-46, 62-77, 93-107; mcp.py:375-385)
SyncRequest(entry, mode) ==
    /\ sync.run.pc \in {"idle", "done"}
    /\ sync.nreq < MaxRuns
    /\ LET n == sync.nreq + 1
       IN sync' = [sync EXCEPT
              !.nreq = n,
              !.returned = IF entry = "mcp" THEN @
                           ELSE @ \cup {JobId(n, "endpoint")},
              !.run = [NoRun EXCEPT !.pc = "scheduled", !.n = n,
                                    !.entry = entry, !.mode = mode,
                                    !.repeat = mode = "incremental"
                                               /\ sync.streak >= 1]]
    /\ UNCHANGED <<db, cache, sync_frame>>

\* sync_table up to its first page (lines 132-143); fail:
\* _clear_table_embeddings raises
BeginSyncTable(run, fail) ==
    IF fail
    THEN /\ db' = [db EXCEPT !.status = UpdateSyncStatus(@, "failed", 0, "error", db.now)]
         /\ sync' = [sync EXCEPT !.streak = 0, !.events = @ + 1,
                                 !.run = [run EXCEPT !.pc = "done",
                                                     !.outcome = "failed"]]
    ELSE LET emb1 == IF run.mode = "full" THEN ClearTableEmbeddings(db.emb)
                     ELSE db.emb
             row_count == Cardinality(DOMAIN db.src)
         IN /\ db' = [db EXCEPT !.emb = emb1]
            /\ sync' = [sync EXCEPT
                   !.streak = IF row_count = 0 /\ run.mode = "incremental"
                              THEN @ + 1 ELSE IF row_count = 0 THEN 0 ELSE @,
                   !.run = [run EXCEPT
                       !.pc = IF row_count = 0 THEN "done" ELSE "page",
                       !.outcome = IF row_count = 0 THEN "completed" ELSE @,
                       !.total = row_count, !.read = TRUE,
                       !.changed = emb1 # db.emb]]

\* sync_schema -> sync_schema_with_job_id -> sync_table_with_job_id up to
\* the first page of _full_sync or _incremental_sync; fail:
\* _ensure_schema_analyzed raises
BeginSyncSchema(run, fail) ==
    LET schema_job == JobId(run.n, "sync_schema")
        table_job == JobId(run.n, "sync_schema_T")
    IN IF fail
       THEN /\ sync' = [sync EXCEPT
                   !.sync_jobs = Put(@, schema_job, "failed"),
                   !.streak = 0, !.events = @ + 1,
                   !.run = [run EXCEPT !.pc = "done", !.outcome = "failed"]]
            /\ UNCHANGED db
       ELSE LET st == EnsureSyncTracking(db.status)
                incremental == run.mode = "incremental"
                rows == IF incremental
                        THEN ChangedSince(db.src, st.last_sync_completed)
                        ELSE <<>>
                total == IF incremental THEN Len(rows)
                         ELSE Cardinality(DOMAIN db.src)
                emb1 == IF incremental THEN db.emb
                        ELSE ClearTableEmbeddings(db.emb)
                ends == total = 0
            IN /\ db' = [db EXCEPT !.registered = TRUE, !.status = st,
                                   !.emb = emb1]
               /\ sync' = [sync EXCEPT
                      !.sync_jobs = Put(@, schema_job,
                                        IF ends THEN "completed" ELSE "running"),
                      !.active_jobs = Put(@, table_job,
                                          IF ends THEN "completed" ELSE "running"),
                      !.streak = IF ends /\ incremental THEN @ + 1
                                 ELSE IF ends THEN 0 ELSE @,
                      !.run = [run EXCEPT
                          !.pc = IF ends THEN "done" ELSE "page",
                          !.outcome = IF ends THEN "completed" ELSE @,
                          !.rows = rows, !.total = total, !.read = TRUE,
                          !.changed = emb1 # db.emb,
                          !.missed = IF incremental
                                     THEN sync.lost \ {rows[i].r : i \in 1..Len(rows)}
                                     ELSE {}]]

\* the background task starts
SyncBegin(fail) ==
    /\ sync.run.pc = "scheduled"
    /\ fail /\ ViaSyncTable(sync.run.entry) => sync.run.mode = "full"
    /\ fail => sync.events < MaxEvents
    /\ IF ViaSyncTable(sync.run.entry)
       THEN BeginSyncTable(sync.run, fail)
       ELSE BeginSyncSchema(sync.run, fail)
    /\ UNCHANGED <<cache, sync_frame>>

\* where the page loop stands after a page whose batch the queue reported
\* as success: the `return` at 465-467 and 1358-1360 goes back to the loop
AfterPage_M(success, last) == IF last \/ ~success THEN "done" ELSE "page"

AfterPage(success, last) == IF last THEN "done" ELSE "page"

\* the rows of the page at run.offset
PageRows(run) ==
    IF ViaSyncTable(run.entry)
    THEN FetchBatch(db.src, db.heap, PageSize, run.offset)
    ELSE IF run.mode = "incremental"
         THEN SubSeq(run.rows, run.offset + 1,
                     Min(run.offset + PageSize, Len(run.rows)))
         ELSE FetchPage(db.src, db.kind, PageSize, run.offset)

\* one turn of the page loop of sync_table (148-171), _full_sync (281-306) or
\* _incremental_sync (395-401) and, after the last page, the end of the run
\* (174-176, 309, 404, 232-236, 914-915).  o is what the embedding queue
\* does with the page; fail: _store_embeddings raises, which ends the run
\* (178-181, 239-243, 910-912)
SyncPage(o, fail) ==
    LET run == sync.run
        rows == PageRows(run)
        ids == {rows[i].r : i \in 1..Len(rows)}
        res == ProcessBatch(db.emb, cache, run.entry, db.kind, rows, db.now, o)
        stored == {res.valid[i].r : i \in 1..Len(res.valid)}
        uncached == {t \in PageTexts(rows) : TextHash(t) \notin DOMAIN cache}
        count == IF ViaSyncTable(run.entry) THEN run.count + Len(res.valid)
                 ELSE run.count + Len(rows)
        offset == run.offset + PageSize
        last == offset >= run.total \/ (ViaSyncTable(run.entry) /\ rows = <<>>)
        schema_job == JobId(run.n, "sync_schema")
        table_job == JobId(run.n, "sync_schema_T")
        ghost == [run EXCEPT !.asked = @ \/ uncached # {},
                             !.reports = Append(@, o.success)]
        fault == fail \/ ~o.success \/ o.newly # uncached
    IN /\ run.pc = "page"
       /\ fail => res.valid # <<>>
       /\ fault => sync.events < MaxEvents
       /\ cache' = res.cache
       /\ IF fail
          THEN /\ db' = IF ViaSyncTable(run.entry)
                        THEN [db EXCEPT !.status =
                                 UpdateSyncStatus(@, "failed", 0, "error", db.now)]
                        ELSE db
               /\ sync' = [sync EXCEPT
                      !.active_jobs = IF ViaSyncTable(run.entry) THEN @
                                      ELSE Put(@, table_job, "failed"),
                      !.sync_jobs = IF ViaSyncTable(run.entry) THEN @
                                    ELSE Put(@, schema_job, "completed"),
                      !.streak = 0, !.events = @ + 1,
                      !.run = [ghost EXCEPT !.pc = "done", !.outcome = "failed"]]
          ELSE /\ db' = [db EXCEPT
                      !.emb = res.emb,
                      !.status = IF last
                                 THEN UpdateSyncStatus(@, "completed", count,
                                                       "", db.now)
                                 ELSE @,
                      !.now = IF last THEN @ + 1 ELSE @]
               /\ sync' = [sync EXCEPT
                      !.active_jobs = IF ViaSyncTable(run.entry) \/ ~last THEN @
                                      ELSE Put(@, table_job, "completed"),
                      !.sync_jobs = IF ViaSyncTable(run.entry) \/ ~last THEN @
                                    ELSE Put(@, schema_job, "completed"),
                      !.lost = IF o.success THEN @ \ stored ELSE @ \cup ids,
                      !.events = IF fault THEN @ + 1 ELSE @,
                      !.streak = IF ~last THEN @
                                 ELSE IF run.mode = "incremental" THEN @ + 1
                                 ELSE 0,
                      !.run = [ghost EXCEPT
                          !.pc = AfterPage(o.success, last),
                          !.outcome = IF last THEN "completed" ELSE @,
                          !.offset = offset, !.count = count,
                          !.wrote = @ \cup stored,
                          !.changed = @ \/ res.emb # db.emb]]
       /\ UNCHANGED sync_frame

\* between two syncs a row of the source table is rewritten: its content
\* changes, the trigger stamps its update column, and its new version goes
\* to the end of the heap
SourceUpdate(r) ==
    /\ r \in DOMAIN db.src
    /\ sync.events < MaxEvents
    /\ sync.run.pc \in {"idle", "done"}
    /\ db' = [db EXCEPT
           !.src[r] = [ver |-> @.ver + 1, updated_at |-> db.now],
           !.heap = SelectSeq(@, LAMBDA x : x # r) \o <<r>>,
           !.now = @ + 1]
    /\ sync' = [sync EXCEPT !.lost = @ \ {r}, !.streak = 0, !.events = @ + 1,
                            !.run.repeat = FALSE]
    /\ UNCHANGED <<cache, sync_frame>>

\* what the embedding queue can do with the page a running sync is at
SyncOutcomes ==
    IF sync.run.pc = "page"
    THEN EmbedOutcomes(PageTexts(PageRows(sync.run)), cache)
    ELSE {}

NextSync ==
    \/ \E q \in Requests : SyncRequest(q[1], q[2])
    \/ \E fail \in BOOLEAN : SyncBegin(fail)
    \/ \E o \in SyncOutcomes, fail \in BOOLEAN : SyncPage(o, fail)
    \/ \E r \in RowIds : SourceUpdate(r)

SpecSync == InitSync /\ [][NextSync]_vars

\* a row of the source table is rewritten while a sync of the table is
\* between two of its pages; live keeps the row, the number of the run and
\* the version written
SourceUpdateLive(r) ==
    /\ r \in DOMAIN db.src
    /\ sync.events < MaxEvents
    /\ sync.run.pc = "page"
    /\ db' = [db EXCEPT
           !.src[r] = [ver |-> @.ver + 1, updated_at |-> db.now],
           !.heap = SelectSeq(@, LAMBDA x : x # r) \o <<r>>,
           !.now = @ + 1]
    /\ sync' = [sync EXCEPT
           !.lost = @ \ {r}, !.streak = 0, !.events = @ + 1,
           !.run.repeat = FALSE,
           !.live = @ \cup {<<r, sync.run.n, db.src[r].ver + 1>>}]
    /\ UNCHANGED <<cache, sync_frame>>

\* the syncs with the source table written to while they run
NextSyncLive ==
    \/ NextSync
    \/ \E r \in RowIds : SourceUpdateLive(r)

SpecSyncLive == InitSync /\ [][NextSyncLive]_vars

\* ---------------------------------- SyncService.process_realtime_change
\* _extract_row_id(row) -> str(row[col]): the identifier that
\* _sync_single_row_data hands to _store_embeddings
SingleRowId(kind, r) == <<"", RowKey(kind, r)>>

\* _delete_embedding, line 1244: f"{schema}_{table}_{row_id}"
DeletedId(kind, r) == <<"S_T_", RowKey(kind, r)>>

\* DELETE FROM atabot.embeddings WHERE id = $1
DeleteEmbedding(emb, id) == [x \in DOMAIN emb \ {id} |-> emb[x]]

\* what the embedding queue can do with the one text of a changed row
SingleOutcomes(r) ==
    IF r \in DOMAIN db.src
    THEN EmbedOutcomes({Text(r, db.src[r].ver + 1)}, cache)
    ELSE EmbedOutcomes({Text(r, 1)}, cache)

\* row r is inserted into the source table, or rewritten, and the change
\* goes through process_realtime_change -> _sync_single_row_data (1174-1232)
RealtimeUpsert(r, o) ==
    /\ sync.run.pc = "idle"
    /\ Len(sync.changes) < MaxChanges
    /\ LET known == r \in DOMAIN db.src
           ver == IF known THEN db.src[r].ver + 1 ELSE 1
           text == Text(r, ver)
           c1 == [h \in DOMAIN cache \cup {TextHash(t) : t \in o.newly} |->
                     IF h \in DOMAIN cache THEN cache[h] ELSE Dense]
           stores == /\ o.success
                     /\ TextHash(text) \in DOMAIN c1
                     /\ SyncAccepts("realtime", c1[TextHash(text)])
       IN /\ cache' = c1
          /\ db' = [db EXCEPT
                 !.src = Put(@, r, [ver |-> ver, updated_at |-> db.now]),
                 !.heap = SelectSeq(@, LAMBDA x : x # r) \o <<r>>,
                 !.emb = IF stores
                         THEN Upsert(@, SingleRowId(db.kind, r), text,
                                     c1[TextHash(text)], db.now)
                         ELSE @,
                 !.now = @ + 1]
          /\ sync' = [sync EXCEPT !.changes =
                 Append(@, <<IF known THEN "UPDATE" ELSE "INSERT", r, stores>>)]
    /\ UNCHANGED sync_frame

\* row r is deleted from the source table, and the change goes through
\* process_realtime_change -> _delete_embedding (1155-1161, 1234-1252)
RealtimeDelete(r) ==
    /\ sync.run.pc = "idle"
    /\ Len(sync.changes) < MaxChanges
    /\ r \in DOMAIN db.src
    /\ db' = [db EXCEPT
           !.src = [x \in DOMAIN @ \ {r} |-> @[x]],
           !.heap = SelectSeq(@, LAMBDA x : x # r),
           !.emb = DeleteEmbedding(@, DeletedId(db.kind, r)),
           !.now = @ + 1]
    /\ sync' = [sync EXCEPT !.changes = Append(@, <<"DELETE", r, FALSE>>)]
    /\ UNCHANGED <<cache, sync_frame>>

NextRealtime ==
    \/ \E r \in RowIds : \E o \in SingleOutcomes(r) : RealtimeUpsert(r, o)
    \/ \E r \in RowIds : RealtimeDelete(r)

SpecRealtime == InitSync /\ [][NextRealtime]_vars

\* ------------------------------------ SyncService.sync_schema_with_job_id
\* the schema sync seen table by table: the tables of the schema are
\* 1..MaxTables, and the sync of one table (sync_table_with_job_id) is one
\* step that returns or raises
TableIds == 1..MaxTables

\* db_pool.get_tables(schema): every table, in the order of the catalogue
AllTables == [i \in 1..MaxTables |-> i]

\* the `tables` argument: None, or a list of tables of the schema
TableLists ==
    {None} \cup
    {l \in UNION {[1..n -> TableIds] : n \in 1..MaxTables} :
        \A i, j \in DOMAIN l : i # j => l[i] # l[j]}

NoSchemaSync == [pc |-> "idle", status |-> "none", tables |-> <<>>, i |-> 0,
                 tables_completed |-> 0, errors |-> <<>>,
                 active_jobs |-> EmptyMap]

InitSchema ==
    /\ queue = <<>>
    /\ processing = FALSE
    /\ cache = EmptyMap
    /\ batch_status = EmptyMap
    /\ batch_results = EmptyMap
    /\ svc_cache = <<>>
    /\ svc_cache_size = 0
    /\ clock = 0
    /\ proc = [p \in ProcIds |-> NoProc]
    /\ qry = [q \in QueryIds |-> NoQuery]
    /\ cur = NoTask
    /\ hist = [asked |-> [t \in Texts |-> 0], bad |-> {},
               parts |-> EmptyMap, done |-> EmptyMap,
               ncompleted |-> EmptyMap, refused |-> FALSE]
    /\ rl = [now |-> 0, requests |-> <<>>, granted |-> <<>>, slept |-> FALSE,
             callers |-> [c \in RlCallerIds |-> [pc |-> "idle", wake |-> 0, calls |-> 0]]]
    /\ wt = NoWait
    /\ db = NoDb
    /\ sync = NoSchemaSync
    /\ srch = NoSearch
    /\ chat = NoChat

\* lines 909-912: the except clause around the sync of one table
OnTableError_M(s, table_name) ==
    [s EXCEPT !.errors = Append(@, table_name), !.pc = "done",
              !.status = "failed"]

OnTableError(s, table_name) == [s EXCEPT !.errors = Append(@, table_name)]

\* lines 880-903 (and 917-923): the job is registered, the schema analysed
\* and the list of tables settled; fail: _ensure_schema_analyzed or
\* get_tables raises
SyncSchemaStart(tables, fail) ==
    /\ sync.pc = "idle"
    /\ LET l == IF tables = None THEN AllTables ELSE tables
       IN sync' = IF fail
                  THEN [sync EXCEPT !.pc = "done", !.status = "failed",
                                    !.errors = Append(@, 0)]
                  ELSE [sync EXCEPT !.pc = "tables", !.status = "running",
                                    !.tables = l, !.i = 1]
    /\ UNCHANGED <<db, cache, sync_frame>>

\* lines 905-915: one turn of the loop over the tables and, after the last
\* table, the end of the job; raised: sync_table_with_job_id raises
SyncSchemaTable(raised) ==
    /\ sync.pc = "tables"
    /\ LET table_name == sync.tables[sync.i]
           s1 == [sync EXCEPT !.active_jobs =
                     Put(@, table_name, IF raised THEN "failed" ELSE "completed")]
           s2 == IF raised THEN OnTableError(s1, table_name)
                 ELSE [s1 EXCEPT !.tables_completed = sync.i]
       IN sync' = IF s2.pc = "done" THEN s2
                  ELSE IF sync.i = Len(sync.tables)
                       THEN [s2 EXCEPT !.pc = "done", !.status = "completed"]
                       ELSE [s2 EXCEPT !.i = @ + 1]
    /\ UNCHANGED <<db, cache, sync_frame>>

NextSchema ==
    \/ \E tables \in TableLists, fail \in BOOLEAN : SyncSchemaStart(tables, fail)
    \/ \E raised \in BOOLEAN : SyncSchemaTable(raised)

SpecSchema == InitSchema /\ [][NextSchema]_vars


\* ------------------------------------------- SearchService.hybrid_search
\* the queries offered to hybrid_search, each as its words (query.split());
\* all of them lower case
SearchQueries ==
    { <<"stok", "terbanyak">>, <<"harga", "tertinggi">>, <<"stok", "alo">>,
      <<"berapa", "ada">>, <<"laporan", "penjualan", "bulanan">> }

\* the query string: its words with one space between them
RECURSIVE JoinWords(_)
JoinWords(ws) ==
    IF ws = <<>> THEN ""
    ELSE IF Len(ws) = 1 THEN ws[1]
    ELSE ws[1] \o " " \o JoinWords(Tail(ws))

\* `pattern in query_lower` for a pattern made of whole words
ContainsPhrase(ws, phrase) ==
    \E i \in 1..(Len(ws) - Len(phrase) + 1) :
        SubSeq(ws, i, i + Len(phrase) - 1) = phrase

\* lines 599-607: superlative_patterns, in the order of the dict
SuperlativePatterns ==
    << [type |-> "highest_stock",
        patterns |-> { <<"stok", "paling", "banyak">>, <<"stok", "terbanyak">>,
                       <<"stok", "tertinggi">>, <<"paling", "banyak", "stok">> }],
       [type |-> "lowest_stock",
        patterns |-> { <<"stok", "paling", "sedikit">>, <<"stok", "terendah">>,
                       <<"stok", "paling", "rendah">> }],
       [type |-> "highest_price",
        patterns |-> { <<"harga", "tertinggi">>, <<"harga", "paling", "mahal">>,
                       <<"paling", "mahal">> }],
       [type |-> "lowest_price",
        patterns |-> { <<"harga", "terendah">>, <<"harga", "paling", "murah">>,
                       <<"paling", "murah">> }] >>

PatternMatches(ws, i) ==
    \E phrase \in SuperlativePatterns[i].patterns : ContainsPhrase(ws, phrase)

\* lines 609-617: the first pattern type one of whose phrases is in the
\* query, "none" when there is none
DetectedPattern(ws) ==
    IF \E i \in DOMAIN SuperlativePatterns : PatternMatches(ws, i)
    THEN SuperlativePatterns[
             CHOOSE i \in DOMAIN SuperlativePatterns :
                 /\ PatternMatches(ws, i)
                 /\ \A j \in 1..(i - 1) : ~PatternMatches(ws, j)].type
    ELSE "none"

\* lines 58-67 of hybrid_search
ProductKeywords == {"stok", "stock", "produk", "product", "item", "barang"}

NeedsFallback(ws) ==
    LET query_terms == SelectSeq(ws, LAMBDA term : Len(term) > 1)
        terms == {query_terms[i] : i \in DOMAIN query_terms}
        has_short_product_terms == \E term \in terms : Len(term) >= 2 /\ Len(term) <= 6
        has_product_context == \E i \in DOMAIN ws : ws[i] \in ProductKeywords
        is_short_query == Len(query_terms) <= 2 /\ \E term \in terms : Len(term) <= 5
    IN is_short_query \/ (has_short_product_terms /\ has_product_context)

\* lines 745-767 of _fallback_text_search: the terms the text search looks
\* for (their case does not matter to ILIKE)
CommonWords == {"berapa", "stok", "stock", "ada", "dan", "di", "program",
                "apa", "yang", "ini", "itu"}

ImportantContext == {"stok", "stock", "program"}

ProductTerms(ws) ==
    LET cleaned == {ws[i] : i \in {j \in DOMAIN ws : Len(ws[j]) >= 2}}
    IN (cleaned \ CommonWords) \cup (cleaned \cap CommonWords \cap ImportantContext)

\* what db_pool.fetch can do: return rows, return none, or raise because
\* the database cannot be reached
StoreOutcomes == {"rows", "no rows", "unavailable"}

\* the outcomes of a step that fetches only if `fetches`
StepOutcomes(fetches) == IF fetches THEN StoreOutcomes ELSE {"not asked"}

\* lines 48-77 and 586-631: hybrid_search is called; _handle_aggregation_query
\* runs (_get_highest_stock_items fetches, the three other lookups return [])
\* and its result is returned only if it is a non-empty list
HybridSearch(query, store) ==
    /\ srch.pc = "idle"
    /\ LET agg == DetectedPattern(query)
       IN /\ store \in StepOutcomes(agg = "highest_stock")
          /\ srch' = [srch EXCEPT
                 !.query = query,
                 !.agg = agg,
                 !.failed = store = "unavailable",
                 !.logged = store = "unavailable",
                 !.result = IF store = "rows" THEN "rows" ELSE "none",
                 !.pc = IF store = "rows" THEN "done"
                        ELSE IF NeedsFallback(query) THEN "fallback"
                        ELSE "embed"]
    /\ UNCHANGED <<queue, processing, cache, batch_status, batch_results,
                   svc_cache, svc_cache_size, clock, proc, qry, cur, hist, rl,
                   wt, db, sync, chat>>

\* lines 68-77 and 733-890: _fallback_text_search; its except returns []
SearchFallback(store) ==
    /\ srch.pc = "fallback"
    /\ store \in StepOutcomes(ProductTerms(srch.query) # {})
    /\ srch' = [srch EXCEPT
           !.failed = @ \/ store = "unavailable",
           !.logged = @ \/ store = "unavailable",
           !.result = IF store = "rows" THEN "rows" ELSE "none",
           !.pc = IF store = "rows" THEN "done" ELSE "embed"]
    /\ UNCHANGED <<queue, processing, cache, batch_status, batch_results,
                   svc_cache, svc_cache_size, clock, proc, qry, cur, hist, rl,
                   wt, db, sync, chat>>

\* lines 80-83: the query embedding is asked for
SearchEmbed(q, wait) ==
    /\ srch.pc = "embed"
    /\ QueryStart(q, JoinWords(srch.query), wait)

\* lines 85-183: generate_embedding has returned or raised; without an
\* embedding [] is returned, with one the vector search is fetched, and
\* the except of hybrid_search logs and raises again
SearchVector(q, store) ==
    /\ srch.pc = "embed"
    /\ qry[q].pc = "done"
    /\ store \in StepOutcomes(qry[q].result = "embedding")
    /\ srch' = [srch EXCEPT
           !.pc = "done",
           !.failed = @ \/ store = "unavailable",
           !.logged = @ \/ store = "unavailable" \/ qry[q].result # "embedding",
           !.result = IF qry[q].result = "RetryError" THEN "RetryError"
                      ELSE IF qry[q].result = "None" THEN "empty"
                      ELSE IF store = "rows" THEN "rows"
                      ELSE IF store = "no rows" THEN "empty"
                      ELSE "StoreError"]
    /\ UNCHANGED <<queue, processing, cache, batch_status, batch_results,
                   svc_cache, svc_cache_size, clock, proc, qry, cur, hist, rl,
                   wt, db, sync, chat>>

\* one hybrid search, the provider and the database failing as they may
NextHybrid ==
    \/ \E query \in SearchQueries, store \in StoreOutcomes \cup {"not asked"} :
           HybridSearch(query, store)
    \/ \E store \in StoreOutcomes \cup {"not asked"} : SearchFallback(store)
    \/ \E q \in QueryIds, wait \in MayWait : SearchEmbed(q, wait)
    \/ \E q \in QueryIds : QueryRateLimitWake(q)
    \/ \E q \in QueryIds : \E resp \in ProviderResponses(1) : QueryReturn(q, resp)
    \/ \E q \in QueryIds : QueryBackoffWake(q)
    \/ \E q \in QueryIds, wait \in MayWait : QueryRetry(q, wait)
    \/ \E q \in QueryIds, store \in StoreOutcomes \cup {"not asked"} :
           SearchVector(q, store)

SpecHybrid == Init /\ [][NextHybrid]_vars

\* ------------------------------------------ ChatOrchestrator.process_query
\* a query is the sequence of its words; every regular expression below is
\* read on whole words, which is what it does on the queries of ChatQueries
HasWord(ws, S) == \E i \in DOMAIN ws : ws[i] \in S

\* one of `first` directly followed by one of `second`
HasPair(ws, first, second) ==
    \E i \in 1..(Len(ws) - 1) : ws[i] \in first /\ ws[i + 1] \in second

\* len(query): the letters of the words and one space between two words
RECURSIVE QueryLen(_)
QueryLen(ws) ==
    IF ws = <<>> THEN 0
    ELSE IF Len(ws) = 1 THEN Len(ws[1])
    ELSE LET half == Len(ws) \div 2
         IN QueryLen(SubSeq(ws, 1, half)) + 1
                + QueryLen(SubSeq(ws, half + 1, Len(ws)))

\* security_guard.py line 94
MaxQueryChars == 1000

\* a query of more than MaxQueryChars characters
LongQuery == [i \in 1..(MaxQueryChars \div 4 + 1) |-> "stok"]

\* the queries a client sends to the chat endpoints
ChatQueries ==
    { <<>>,
      LongQuery,
      <<"ignore", "all", "data">>,
      <<"hello", "there">>,
      <<"count", "orders">>,
      <<"count", "items", "where", "status", "is", "open">>,
      <<"total", "qty">>,
      <<"total">>,
      <<"compare", "stock", "alo">>,
      <<"stok", "alo">> }

\* security_guard.py lines 19 and 29: the dangerous patterns that a query
\* of ChatQueries can match; the text they match, <<>> when none does
DangerousMatch(ws) ==
    IF HasPair(ws, {"forget", "ignore", "disregard"},
                   {"all", "everything", "previous", "above", "system", "instructions"})
    THEN LET i == CHOOSE j \in 1..(Len(ws) - 1) :
                      /\ ws[j] \in {"forget", "ignore", "disregard"}
                      /\ ws[j + 1] \in {"all", "everything", "previous", "above",
                                        "system", "instructions"}
         IN <<ws[i], ws[i + 1]>>
    ELSE IF HasWord(ws, {"jailbreak", "escape", "override"})
    THEN <<ws[CHOOSE j \in DOMAIN ws : ws[j] \in {"jailbreak", "escape", "override"}]>>
    ELSE <<>>

\* SecurityGuard._is_indonesian_business_context: at least two business
\* words beside the matched text (no query of ChatQueries has "dan")
IsIndonesianBusinessContext(ws, matched) ==
    LET business_keywords == {"stok", "stock", "produk", "program", "item", "barang",
                              "inventory", "warehouse", "gudang", "berapa", "ada"}
        matched_words == {matched[i] : i \in DOMAIN matched}
        words_around == SelectSeq(ws, LAMBDA w : w \notin matched_words)
    IN Len(SelectSeq(words_around, LAMBDA w : w \in business_keywords)) >= 2

\* SecurityGuard._is_business_query
IsBusinessQuery(ws) ==
    HasWord(ws, {"stok", "stock", "inventory", "jumlah", "berapa",
                 "program", "promo", "campaign",
                 "product", "produk", "item", "barang",
                 "data", "informasi", "info", "list", "show", "tampilkan",
                 "analisis", "analysis", "report", "laporan",
                 "compare", "bandingkan", "vs", "versus",
                 "cari", "search", "find", "where",
                 "total", "sum", "count", "hitung",
                 "warehouse", "gudang", "supplier", "customer", "pelanggan",
                 "sales", "penjualan", "purchase", "pembelian", "order",
                 "transaction", "transaksi", "revenue", "profit", "margin",
                 "category", "kategori", "brand", "merek", "price", "harga"})

\* security_guard.py lines 76-80
IndonesianSafeWords ==
    {"dan", "yang", "di", "ke", "dari", "untuk", "dengan", "pada", "dalam",
     "atau", "jika", "kalau", "akan", "telah", "sudah", "ada", "tidak", "ini",
     "itu", "saya", "kamu", "kami", "mereka"}

\* lines 98-112: the injection filter, a dangerous pattern that is neither
\* a safe word nor in a business context
InjectionDetected(ws) ==
    LET matched == DangerousMatch(ws)
    IN /\ matched # <<>>
       /\ matched \notin {<<w>> : w \in IndonesianSafeWords}
       /\ ~IsIndonesianBusinessContext(ws, matched)

\* SecurityGuard.validate_query: the reason of the rejection, "" when valid
ValidateQuery_M(ws) ==
    IF ws = <<>> THEN "Empty query"
    ELSE IF InjectionDetected(ws)
    THEN "Query contains potentially harmful instructions"
    ELSE IF ~IsBusinessQuery(ws) THEN "Query is outside business data scope"
    ELSE ""

ValidateQuery(ws) ==
    IF ws = <<>> THEN "Empty query"
    ELSE IF QueryLen(ws) > MaxQueryChars THEN "Query too long (max 1000 characters)"
    ELSE IF InjectionDetected(ws)
    THEN "Query contains potentially harmful instructions"
    ELSE IF ~IsBusinessQuery(ws) THEN "Query is outside business data scope"
    ELSE ""

\* _log_security_violation is called for these two reasons only
LogsViolation(reason) ==
    reason \in {"Query contains potentially harmful instructions",
                "Query is outside business data scope"}

\* security_guard.py lines 227-228: the log keeps its last 100 entries
BlockedLogMax == 100

\* QueryDecomposer.analyze_query_intent: intent['type']
AnalyzeQueryIntent(ws) ==
    IF HasWord(ws, {"total", "sum", "count", "average", "jumlah", "rata-rata"})
    THEN "aggregation"
    ELSE IF HasWord(ws, {"compare", "versus", "vs", "bandingkan", "perbedaan"})
    THEN "comparison"
    ELSE IF HasWord(ws, {"list", "show", "display", "tampilkan", "daftar"})
    THEN "listing"
    ELSE IF HasWord(ws, {"find", "search", "locate", "cari", "temukan"})
    THEN "search"
    ELSE "unknown"

\* intent.get('target_table'): analyze_query_intent sets no such key
NoHint == ""

TargetTable(ws) == NoHint

\* ------------------------------------------------------------ SmartRouter
NoTemplate == [type |-> "complex", needs_llm |-> TRUE, template |-> "", field |-> ""]

\* the word after the first of `first`, "" when there is none
WordAfter(ws, first) ==
    IF \E i \in 1..(Len(ws) - 1) : ws[i] \in first
    THEN ws[(CHOOSE i \in 1..(Len(ws) - 1) :
                 /\ ws[i] \in first
                 /\ \A j \in 1..(i - 1) : ws[j] \notin first) + 1]
    ELSE ""

\* SmartRouter.analyze_query
AnalyzeQuery(ws) ==
    IF \E i \in 1..(Len(ws) - 1) : ws[i] \in {"stok", "stock"}
    THEN [type |-> "stock_query", needs_llm |-> FALSE, template |-> "", field |-> ""]
    ELSE IF \E i \in 1..(Len(ws) - 1) : ws[i] \in {"cari", "search", "find"}
    THEN [type |-> "product_search", needs_llm |-> FALSE, template |-> "", field |-> ""]
    ELSE IF HasWord(ws, {"count", "jumlah"}) \/ HasPair(ws, {"berapa"}, {"banyak"})
            \/ HasPair(ws, {"how"}, {"many"})
    THEN [type |-> "count", needs_llm |-> FALSE, template |-> "count", field |-> ""]
    ELSE IF HasWord(ws, {"total", "sum"}) /\ WordAfter(ws, {"total", "sum"}) # ""
    THEN [type |-> "sum", needs_llm |-> FALSE, template |-> "sum",
          field |-> WordAfter(ws, {"total", "sum"})]
    ELSE IF HasPair(ws, {"list", "show", "tampilkan", "tunjukkan"}, {"all"})
    THEN [type |-> "list", needs_llm |-> FALSE, template |-> "list", field |-> ""]
    ELSE NoTemplate

\* the simple_where pattern: (where|dengan|yang) field (=|is) value
WhereClause(ws) ==
    IF \E i \in 1..(Len(ws) - 3) :
           ws[i] \in {"where", "dengan", "yang"} /\ ws[i + 2] \in {"=", "is"}
    THEN LET i == CHOOSE j \in 1..(Len(ws) - 3) :
                      /\ ws[j] \in {"where", "dengan", "yang"} /\ ws[j + 2] \in {"=", "is"}
                      /\ \A k \in 1..(j - 1) :
                             ~(ws[k] \in {"where", "dengan", "yang"} /\ ws[k + 2] \in {"=", "is"})
         IN <<"WHERE", ws[i + 1], "=", "'" \o JoinWords(SubSeq(ws, i + 3, Len(ws))) \o "'">>
    ELSE <<>>

\* f'"{schema}"."{table_hint}"'
QuotedTable(schema, table) == "\"" \o schema \o "\".\"" \o table \o "\""

\* SmartRouter.generate_sql_without_llm: the statement as its tokens, <<>>
\* for None
GenerateSqlWithoutLlm(ws, schema, table_hint) ==
    LET analysis == AnalyzeQuery(ws)
    IN IF ~analysis.needs_llm /\ table_hint # NoHint /\ analysis.template # ""
       THEN IF analysis.template = "count"
            THEN <<"SELECT", "COUNT(*)", "FROM", QuotedTable(schema, table_hint)>>
                     \o WhereClause(ws)
            ELSE IF analysis.template = "sum"
            THEN <<"SELECT", "SUM(" \o analysis.field \o ")", "FROM",
                   QuotedTable(schema, table_hint)>> \o WhereClause(ws)
            ELSE <<"SELECT", "*", "FROM", QuotedTable(schema, table_hint),
                   "LIMIT", "100">>
       ELSE <<>>

\* ----------------------------------------------------------- SQLGenerator
\* the schema the requests name, and the tables its metadata may list, in
\* the order of the dict
SchemaName == "S"

SchemaTables == { <<>>, <<"items", "orders">> }

\* SQLGenerator._identify_target_table: a table named in the query, else
\* the first table, NoHint when the schema lists none
IdentifyTargetTable(ws, tables) ==
    IF \E i \in DOMAIN tables : HasWord(ws, {tables[i]})
    THEN tables[CHOOSE i \in DOMAIN tables :
                    /\ HasWord(ws, {tables[i]})
                    /\ \A j \in 1..(i - 1) : ~HasWord(ws, {tables[j]})]
    ELSE IF tables # <<>> THEN tables[1]
    ELSE NoHint

\* SQLGenerator._analyze_query_intent: intent['type']
SqlIntent(ws) ==
    LET aggregation == HasWord(ws, {"count", "jumlah", "sum", "total", "average",
                                    "rata-rata", "mean", "maximum", "highest",
                                    "tertinggi", "terbesar", "minimum", "lowest",
                                    "terendah", "terkecil"})
    IN IF HasWord(ws, {"compare", "versus", "vs", "bandingkan", "dibanding", "difference"})
       THEN "comparison"
       ELSE IF aggregation THEN "aggregation"
       ELSE IF HasWord(ws, {"find", "search", "show", "list", "cari", "tampilkan",
                            "where", "yang"})
       THEN "search"
       ELSE "unknown"

\* what llm_client.generate may answer when asked for SQL: a statement on
\* one line (as its tokens, keywords in upper case), possibly followed by
\* a comment, or an exception
LlmStatements ==
    { <<"SELECT", "SUM(qty)", "FROM", "orders">>,
      <<"SELECT", "COUNT(*)", "FROM", "S.items", "LIMIT", "10", "--", "ten", "items">>,
      <<"DELETE", "FROM", "S.orders", "WHERE", "id", "IN", "(", "SELECT", "id",
        "FROM", "S.orders", "LIMIT", "1", ")", "RETURNING", "*">> }

LlmOutcomes == LlmStatements \cup { <<"raises">> }

\* SQLGenerator._clean_sql: a comment is removed, from its "--" to the
\* end of the line
CleanSql(sql) ==
    IF \E i \in DOMAIN sql : sql[i] = "--"
    THEN SubSeq(sql, 1, (CHOOSE i \in DOMAIN sql :
                            sql[i] = "--" /\ \A j \in 1..(i - 1) : sql[j] # "--") - 1)
    ELSE sql

\* sql_generator.py line 678
DangerousKeywords == {"DROP", "DELETE", "TRUNCATE", "ALTER", "CREATE", "INSERT", "UPDATE"}

IsDangerous(sql) == \E i \in DOMAIN sql : sql[i] \in DangerousKeywords

\* lines 684-698: the schema is put before the table of FROM and JOIN when
\* the statement names it nowhere
QualifyTables(sql, schema) ==
    IF \E i \in DOMAIN sql : sql[i] \in {schema \o "." \o t : t \in {"items", "orders"}}
    THEN sql
    ELSE [i \in DOMAIN sql |->
             IF i > 1 /\ sql[i - 1] \in {"FROM", "JOIN"}
             THEN schema \o "." \o sql[i] ELSE sql[i]]

\* SQLGenerator._validate_sql (the second definition, lines 661-706): the
\* ValueError of lines 675 and 682 is raised inside the try whose except
\* logs a warning and returns the statement
ValidateSql(sql, schema) ==
    IF sql = <<>> \/ IsDangerous(sql) THEN sql
    ELSE QualifyTables(sql, schema)

\* SQLGenerator.execute_sql lines 788-789: the statement handed to
\* db_pool.fetch
WithLimit(sql) ==
    IF \E i \in DOMAIN sql : sql[i] = "LIMIT" THEN sql
    ELSE sql \o <<"LIMIT", "1000">>

\* ------------------------------------------------------- ChatOrchestrator
Endpoints == {"/", "/stream"}

\* request.session_id: none, or the id of a session
SessionIds == {"", "s1"}

NoResponse == [kind |-> "none", rejected |-> FALSE]

\* what the client receives of process_query's result: POST / returns it
\* whole (ChatResponse(**result)), stream_response relays the answer, the
\* sources and the processing time, and no metadata
Relay(endpoint, result) ==
    IF endpoint = "/" THEN result ELSE [result EXCEPT !.rejected = FALSE]

\* chat.py lines 36-77: a request arrives; the query is validated and a
\* rejected one is answered at once; otherwise the session's context is
\* fetched or created and the intent analysed, up to the first await
ProcessQuery(endpoint, sid, query) ==
    /\ chat.pc \in {"idle", "done"}
    /\ chat.n < MaxChats
    /\ LET session_id == IF sid = "" THEN <<"uuid", chat.n + 1>> ELSE <<sid, 0>>
           reason == ValidateQuery(query)
           req == [chat EXCEPT !.n = @ + 1, !.endpoint = endpoint,
                               !.session = session_id, !.query = query,
                               !.created = FALSE, !.appended = 0, !.calls = {},
                               !.template = FALSE, !.hint = NoHint, !.sql = <<>>,
                               !.sql_from = "none", !.executed = <<>>,
                               !.response = NoResponse]
       IN chat' = IF reason # ""
                  THEN [req EXCEPT
                           !.pc = "done",
                           !.blocked = IF ~LogsViolation(reason) THEN @
                                       ELSE IF @ < BlockedLogMax THEN @ + 1 ELSE @,
                           !.response = Relay(endpoint, [kind |-> "canned",
                                                         rejected |-> TRUE])]
                  ELSE [req EXCEPT
                           !.pc = "route",
                           !.created = session_id \notin chat.contexts,
                           !.contexts = @ \cup {session_id}]
    /\ UNCHANGED <<queue, processing, cache, batch_status, batch_results,
                   svc_cache, svc_cache_size, clock, proc, qry, cur, hist, rl,
                   wt, db, sync, srch>>

\* lines 95-123 and 239-253: detect_join_opportunity has returned; the
\* query goes to the join, to the SQL or to the search path
ChatRoute(join) ==
    /\ chat.pc = "route"
    /\ LET hint == TargetTable(chat.query)
           sql == GenerateSqlWithoutLlm(chat.query, SchemaName, hint)
       IN chat' =
            IF join
            THEN [chat EXCEPT !.pc = "answer", !.calls = @ \cup {"join"}]
            ELSE IF AnalyzeQueryIntent(chat.query) \in {"aggregation", "comparison", "join"}
            THEN [chat EXCEPT
                     !.calls = @ \cup {"sql_generation"},
                     !.template = AnalyzeQuery(chat.query).template # "",
                     !.hint = hint,
                     !.sql = sql,
                     !.sql_from = IF sql # <<>> THEN "template" ELSE "none",
                     !.pc = IF sql # <<>> THEN "execute" ELSE "schema_info"]
            ELSE [chat EXCEPT !.pc = "search", !.calls = @ \cup {"search"}]
    /\ UNCHANGED <<queue, processing, cache, batch_status, batch_results,
                   svc_cache, svc_cache_size, clock, proc, qry, cur, hist, rl,
                   wt, db, sync, srch>>

\* sql_generator.py lines 21-93: _get_schema_info has returned; generate_sql
\* picks a table, tries the router with it and returns the router's
\* statement as it is, or goes on to the generator of the intent
GenerateSql(tables) ==
    /\ chat.pc = "schema_info"
    /\ LET table_hint == IdentifyTargetTable(chat.query, tables)
           sql == GenerateSqlWithoutLlm(chat.query, SchemaName, table_hint)
           uses_llm == \/ SqlIntent(chat.query) \in {"aggregation", "search", "comparison"}
                       \/ table_hint = NoHint
       IN chat' =
            IF sql # <<>>
            THEN [chat EXCEPT !.sql = sql, !.sql_from = "template", !.pc = "execute"]
            ELSE IF uses_llm
            THEN [chat EXCEPT !.pc = "llm_sql", !.calls = @ \cup {"llm"}]
            ELSE [chat EXCEPT
                     !.sql = ValidateSql(<<"SELECT", "*", "FROM",
                                           QuotedTable(SchemaName, table_hint),
                                           "LIMIT", "100">>, SchemaName),
                     !.sql_from = "fixed", !.pc = "execute"]
    /\ UNCHANGED <<queue, processing, cache, batch_status, batch_results,
                   svc_cache, svc_cache_size, clock, proc, qry, cur, hist, rl,
                   wt, db, sync, srch>>

\* sql_generator.py lines 70-105: llm_client.generate has returned or raised; the statement
\* is cleaned and validated; an exception goes up through process_query
LlmSqlReturn(out) ==
    /\ chat.pc = "llm_sql"
    /\ chat' = IF out = <<"raises">>
               THEN [chat EXCEPT !.pc = "done",
                                 !.response = [kind |-> "error", rejected |-> FALSE]]
               ELSE [chat EXCEPT !.pc = "execute", !.sql_from = "llm",
                                 !.sql = ValidateSql(CleanSql(out), SchemaName)]
    /\ UNCHANGED <<queue, processing, cache, batch_status, batch_results,
                   svc_cache, svc_cache_size, clock, proc, qry, cur, hist, rl,
                   wt, db, sync, srch>>

\* chat.py lines 257 and 266, sql_generator.py lines 777-811: execute_sql
\* hands the statement to db_pool.fetch and catches what it raises
ExecuteSql ==
    /\ chat.pc = "execute"
    /\ chat' = [chat EXCEPT !.pc = "answer", !.calls = @ \cup {"db"},
                            !.executed = WithLimit(chat.sql)]
    /\ UNCHANGED <<queue, processing, cache, batch_status, batch_results,
                   svc_cache, svc_cache_size, clock, proc, qry, cur, hist, rl,
                   wt, db, sync, srch>>

\* chat.py lines 290-294: hybrid_search has returned its results or raised
SearchReturn(raised) ==
    /\ chat.pc = "search"
    /\ chat' = IF raised
               THEN [chat EXCEPT !.pc = "done",
                                 !.response = [kind |-> "error", rejected |-> FALSE]]
               ELSE [chat EXCEPT !.pc = "answer"]
    /\ UNCHANGED <<queue, processing, cache, batch_status, batch_results,
                   svc_cache, svc_cache_size, clock, proc, qry, cur, hist, rl,
                   wt, db, sync, srch>>

\* chat.py lines 126-172: the answer is generated (with the LLM when there are
\* results to word), checked, and the exchange is added to the session's
\* conversation history and to the query log
ChatAnswer(words) ==
    /\ chat.pc = "answer"
    /\ chat' = [chat EXCEPT
           !.pc = "done",
           !.calls = IF words THEN @ \cup {"llm"} ELSE @,
           !.appended = 2,
           !.response = Relay(chat.endpoint, [kind |-> "answer", rejected |-> FALSE])]
    /\ UNCHANGED <<queue, processing, cache, batch_status, batch_results,
                   svc_cache, svc_cache_size, clock, proc, qry, cur, hist, rl,
                   wt, db, sync, srch>>

\* the chat endpoints, one request at a time
NextChat ==
    \/ \E endpoint \in Endpoints, sid \in SessionIds, query \in ChatQueries :
           ProcessQuery(endpoint, sid, query)
    \/ \E join \in BOOLEAN : ChatRoute(join)
    \/ \E tables \in SchemaTables : GenerateSql(tables)
    \/ \E out \in LlmOutcomes : LlmSqlReturn(out)
    \/ ExecuteSql
    \/ \E raised \in BOOLEAN : SearchReturn(raised)
    \/ \E words \in BOOLEAN : ChatAnswer(words)

SpecChat == Init /\ [][NextChat]_vars

\* -------------------------------------------- the two in-memory caches
\* both caches followed with a ceiling of CacheCeiling entries in place of
\* the 1000 of the source, and with one more text than the ceiling
Gamma == "gamma"
CacheTexts == {Alpha, Beta, Gamma}

cache_frame == <<queue, processing, batch_status, batch_results, clock, proc,
                 qry, cur, hist, rl, wt, db, sync, srch, chat>>

\* EmbeddingService._add_to_cache(cache_key, embedding), as called at the
\* end of generate_embedding and of a provider request
SvcAddToCache(text, input_type) ==
    /\ LET c == AddToCache([cache |-> svc_cache, size |-> svc_cache_size],
                           CacheCeiling, GetCacheKey(text, input_type), Dense)
       IN /\ svc_cache' = c.cache
          /\ svc_cache_size' = c.size
    /\ UNCHANGED cache
    /\ UNCHANGED cache_frame

\* EmbeddingService.clear_cache
SvcClearCache ==
    /\ svc_cache' = <<>>
    /\ svc_cache_size' = 0
    /\ UNCHANGED cache
    /\ UNCHANGED cache_frame

\* _process_queue, line 177: self.cache[text_hash] = embedding
QueueCacheStore(text) ==
    /\ cache' = Put(cache, TextHash(text), Dense)
    /\ UNCHANGED <<svc_cache, svc_cache_size>>
    /\ UNCHANGED cache_frame

NextCache ==
    \/ \E t \in CacheTexts, ty \in {"document", "query"} : SvcAddToCache(t, ty)
    \/ SvcClearCache
    \/ \E t \in CacheTexts : QueueCacheStore(t)
    \/ ClearCache

SpecCache == Init /\ [][NextCache]_vars





\* ================================================================= claims
BatchIds == DOMAIN batch_status

Manifest(b) == {batch_results[b].text_hashes[i] :
                   i \in 1..Len(batch_results[b].text_hashes)}

Terminal == {"completed", "failed"}

\* no _process_queue task is scheduled or running and the queue is drained
Quiescent ==
    /\ queue = <<>>
    /\ \A p \in ProcIds : proc[p].pc \in {"unborn", "done"}

\* the provider requests that are in flight
InFlight ==
    {[by |-> "processor", task |-> p, input_type |-> "document"] :
        p \in {x \in ProcIds : proc[x].pc = "embed"}}
    \cup {[by |-> "search", task |-> q, input_type |-> "query"] :
        q \in {x \in QueryIds : qry[x].pc = "embed"}}

\* empty, or at most 10% of the components differ from zero
IsZeroVector(v) == Len(v) = 0 \/ 10 * NonZeroCount(v) <= Len(v)

\* C1: whenever a batch is 'completed', every text hash of its manifest is
\* in the queue's embedding cache.
C1_CompletedHasAllHashes ==
    \A b \in BatchIds :
        batch_status[b] = "completed" => Manifest(b) \subseteq DOMAIN cache

\* C2: no vector held in the queue cache or in the service cache is a
\* zero-vector (empty, or at most 10% non-zero components).
C2_NoZeroVectorCached ==
    /\ \A h \in DOMAIN cache : ~IsZeroVector(cache[h])
    /\ \A i \in 1..Len(svc_cache) : ~IsZeroVector(svc_cache[i].emb)

\* the provider has answered a text with an invalid vector or an error, the
\* super-batch was stored, and other vectors did reach both caches
C2_Witness ==
    /\ \E t \in hist.bad : TextHash(t) \notin DOMAIN cache
    /\ DOMAIN cache # {}
    /\ svc_cache # <<>>

\* C3: every batch reaches 'completed' or 'failed'; stated on the final
\* state: once the queue is drained and every processor task has returned,
\* no batch is left 'pending' or 'processing'.
C3_AllTerminalWhenDrained ==
    Quiescent => \A b \in BatchIds : batch_status[b] \in Terminal

\* C4: batch status moves only along pending -> processing -> completed or
\* failed, and a terminal status never changes again.
C4_StatusMonotonic ==
    [][\A b \in BatchIds :
          /\ b \in DOMAIN batch_status'
          /\ batch_status[b] \in Terminal => batch_status'[b] = batch_status[b]
          /\ batch_status[b] = "processing" =>
                 batch_status'[b] \in {"processing"} \cup Terminal
          /\ batch_status[b] = "pending" =>
                 batch_status'[b] \in {"pending", "processing"}]_vars

\* a batch that was split across several super-batches has completed
C4_Witness ==
    \E b \in BatchIds : batch_status[b] = "completed" /\ hist.parts[b] >= 2

\* C5: the admissions granted within any interval of WindowSeconds seconds
\* number at most MaxRequests.
C5_AtMostMaxPerWindow ==
    \A i \in 1..Len(rl.granted) :
        Cardinality({j \in 1..Len(rl.granted) :
            /\ rl.granted[j] <= rl.granted[i]
            /\ rl.granted[i] - rl.granted[j] < WindowSeconds}) <= MaxRequests

\* C6: at most one _process_queue task is inside its processing loop.
C6_SingleProcessor ==
    Cardinality({p \in ProcIds : proc[p].pc \in LoopPcs}) <= 1

\* a second task met the guard while the first was in its loop
C6_Witness ==
    /\ hist.refused
    /\ \E p \in ProcIds : proc[p].pc \in LoopPcs

C8_AskedAtMostOnce ==
    \A t \in Texts : hist.asked[t] <= 1

\* C9: a submission whose texts are all cached is 'completed' when add_batch
\* returns; it enqueues nothing, schedules no task and sends no request.
C9_AllCachedCompletedAtSubmit ==
    [][\A b \in DOMAIN batch_status' \ DOMAIN batch_status :
          (\A i \in 1..Len(batch_results'[b].text_hashes) :
               batch_results'[b].text_hashes[i] \in DOMAIN cache)
          => /\ batch_status'[b] = "completed"
             /\ queue' = queue
             /\ proc' = proc
             /\ hist'.asked = hist.asked]_vars

\* a non-empty submission was answered from the cache alone
C9_Witness ==
    \E b \in BatchIds :
        /\ batch_results[b].total > 0
        /\ batch_results[b].cached = batch_results[b].total
        /\ batch_status[b] = "completed"
        /\ hist.parts[b] = 0

\* C10: a submission is split across consecutive super-batches of at most
\* SuperBatchMax texts (the rest of a batch that was taken in part stays at
\* the head of the queue); it is marked completed once, and only after its
\* last part was processed; with a provider that answers every text it is
\* completed when the queue has drained.
C10_SplitCompletedOnce ==
    /\ \A p \in ProcIds : Len(proc[p].batch_texts) <= SuperBatchMax
    /\ \A b \in BatchIds :
          /\ hist.ncompleted[b] <= 1
          /\ batch_status[b] = "completed" <=> hist.ncompleted[b] = 1
          /\ (hist.parts[b] > 0 /\ \E i \in 1..Len(queue) : queue[i].batch_id = b)
                => queue[1].batch_id = b
          /\ batch_status[b] = "completed" =>
                /\ \A i \in 1..Len(queue) : queue[i].batch_id # b
                /\ hist.done[b] = hist.parts[b]
                /\ hist.parts[b] * SuperBatchMax >= batch_results[b].to_process
          /\ (Quiescent /\ hist.bad = {} /\ TextHash(Blank) \notin Manifest(b))
                => batch_status[b] = "completed"

\* a submission went through three super-batches and is completed
C10_Witness ==
    \E b \in BatchIds :
        /\ batch_status[b] = "completed"
        /\ hist.parts[b] >= 3
        /\ batch_results[b].to_process > 2 * SuperBatchMax

\* the batches whose manifest holds the hash of t
Owners(t) == {b \in BatchIds : TextHash(t) \in Manifest(b)}

\* C11: when the provider answers a submitted text with a zero-vector or
\* another invalid vector (and the text never gets a valid one), the batch
\* that owns the text is never 'completed' and ends in status 'failed'.
\* Under SpecVectors hist.bad holds the texts answered with such a vector.
C11_InvalidVectorFailsBatch ==
    \A t \in hist.bad : \A b \in Owners(t) :
        (Owners(t) = {b} /\ TextHash(t) \notin DOMAIN cache)
        => /\ batch_status[b] # "completed"
           /\ Quiescent => batch_status[b] = "failed"

\* C12: a text that met a provider rate-limit error does not make its
\* batch 'failed', and it is embedded by the time the processor has
\* finished.  Under SpecRateLimit hist.bad holds the texts of the requests
\* that met the rate limit.
C12_RateLimitedTextsEmbedded ==
    \A t \in hist.bad : \A b \in Owners(t) :
        /\ batch_status[b] # "failed"
        /\ Quiescent => TextHash(t) \in DOMAIN cache

\* C13 as stated: wait_for_batch returns true only when the batch is
\* 'completed' at that moment, false when it is 'failed', and otherwise it
\* keeps waiting until the timeout has elapsed and then returns false.
C13_WaitUntilTerminalOrTimeout ==
    /\ wt.pc = "sleep" => wt.elapsed < wt.timeout
    /\ wt.pc = "returned" =>
          /\ wt.result = "True" => wt.seen = "completed"
          /\ wt.seen = "failed" => wt.result = "False"
          /\ wt.elapsed >= wt.timeout => wt.result = "False"
          /\ wt.result = "False" =>
                 wt.seen = "failed" \/ wt.elapsed >= wt.timeout

\* C13 as amended: the same, and wait_for_batch also returns false at once
\* when the queue holds no status for the batch id, which is the case after
\* clear_cache even while the batch is still queued.
C13_WaitUntilTerminalUnknownOrTimeout ==
    /\ wt.pc = "sleep" =>
          /\ wt.elapsed < wt.timeout
          /\ StatusOf(wt.batch_id) \in {"pending", "processing", "completed", "unknown"}
    /\ wt.pc = "returned" =>
          /\ wt.result = "True" => wt.seen = "completed"
          /\ wt.seen = "failed" => wt.result = "False"
          /\ wt.elapsed >= wt.timeout => wt.result = "False"
          /\ wt.result = "False" =>
                 wt.seen \in {"failed", "unknown"} \/ wt.elapsed >= wt.timeout

\* a caller slept at least once and then, before its timeout, got false
\* for a batch whose status had been cleared
C13_Witness ==
    /\ wt.pc = "returned"
    /\ wt.result = "False"
    /\ wt.seen = "unknown"
    /\ wt.elapsed > 0
    /\ wt.elapsed < wt.timeout


\* C14: the watermark of the table (SyncStatus.last_sync_completed) changes
\* only in the step that ends a sync as completed, and then only forward; a
\* sync that ends in failure leaves it as it was.
C14_WatermarkAdvancesOnlyOnCompletion ==
    [][db'.status.last_sync_completed # db.status.last_sync_completed
         => /\ sync'.run.pc = "done"
            /\ sync'.run.outcome = "completed"
            /\ db'.status.last_sync_completed > db.status.last_sync_completed]_vars

\* a sync has ended in failure after an earlier one had completed: the
\* status row says failed and still carries the earlier watermark
C14_Witness ==
    /\ sync.run.pc = "done"
    /\ sync.run.outcome = "failed"
    /\ db.status.sync_status = "failed"
    /\ db.status.last_sync_completed # NULL

\* C15: the rows whose page the embedding queue failed or timed out on, and
\* which the source has not changed since, are among the rows that the next
\* incremental sync of the table selects.
C15_FailedRowsSelectedAgain ==
    (sync.run.mode = "incremental" /\ sync.run.read) => sync.run.missed = {}

\* the Embedding rows of the table in the vector store
TableEmbeddings == {id \in DOMAIN db.emb : db.emb[id].table_name = "T"}

\* C16: when a full sync of the table has completed, the store holds one
\* Embedding row of the table for each row the sync embedded and stored, no
\* other Embedding row of the table, and no zero-vector.
C16_FullSyncOneEmbeddingPerRow ==
    (sync.run.pc = "done" /\ sync.run.mode = "full"
        /\ sync.run.outcome = "completed")
    => /\ Cardinality(TableEmbeddings) = Cardinality(sync.run.wrote)
       /\ \A id \in TableEmbeddings :
             /\ \E r \in sync.run.wrote : id = EmbId(sync.run.entry, db.kind, r)
             /\ NonZeroCount(db.emb[id].embedding) > 0

\* C17: when a full sync of the table has completed, SyncStatus.rows_synced
\* is the number of rows of the table.
C17_FullSyncRowsSynced ==
    (sync.run.pc = "done" /\ sync.run.mode = "full"
        /\ sync.run.outcome = "completed")
    => db.status.rows_synced = Cardinality(DOMAIN db.src)

\* C18: an incremental sync that follows a completed incremental sync, with
\* no change of the source since, stores no row, asks the provider for no
\* text and leaves the Embedding rows as they were, whatever the entry point.
C18_SecondIncrementalIsNoOp ==
    (sync.run.repeat /\ sync.run.pc \in {"page", "done"})
    => /\ sync.run.wrote = {}
       /\ ~sync.run.asked
       /\ ~sync.run.changed

\* C19: once the background task of a sync request has started, the job id
\* that the request returned resolves through get_job_status.
C19_ReturnedJobIdResolves ==
    \A j \in sync.returned :
        (j[1] = sync.run.n /\ sync.run.pc = "scheduled")
        \/ GetJobStatus(j) # "None"

\* C20: a sync that has fetched rows of the table runs on a schema that is
\* registered in managed_schemas.
C20_SchemaRegisteredBeforeSync ==
    (sync.run.offset > 0 \/ sync.run.rows # <<>>) => db.registered

\* C21: when the sync of the table has failed within a schema sync, the
\* SyncStatus of the table says failed and carries the error in last_error.
C21_TableFailureRecorded ==
    (sync.run.pc = "done" /\ ~ViaSyncTable(sync.run.entry)
        /\ GetJobStatus(JobId(sync.run.n, "sync_schema_T")) = "failed")
    => /\ db.status.sync_status = "failed"
       /\ db.status.last_error # ""

\* C22: a sync of table "T" leaves the Embedding rows of another table as
\* they are: no row of "T" gets the identifier of a row of another table.
C22_OtherTableUntouched ==
    \A id \in DOMAIN OtherTableEmbedding :
        id \in DOMAIN db.emb /\ db.emb[id] = OtherTableEmbedding[id]

\* the queries C26 is about: empty, too long, or caught by the injection
\* filter
Rejectable(ws) ==
    ws = <<>> \/ QueryLen(ws) > MaxQueryChars \/ InjectionDetected(ws)

\* the step that takes a request has done all there is to do for a
\* rejectable query: no context, no history, no collaborator called
RejectedAtOnce ==
    /\ chat'.pc = "done"
    /\ chat'.response.kind = "canned"
    /\ chat'.contexts = chat.contexts
    /\ ~chat'.created
    /\ chat'.appended = 0
    /\ chat'.calls = {}
    /\ chat'.sql = <<>> /\ chat'.executed = <<>>

C27_DangerousSqlNeverExecuted ==
    ~IsDangerous(chat.executed)

\* C28: every vector in the queue's cache and in the service's cache has
\* exactly Dim components
C28_CachedVectorsHaveDim ==
    /\ \A h \in DOMAIN cache : Len(cache[h]) = Dim
    /\ \A i \in 1..Len(svc_cache) : Len(svc_cache[i].emb) = Dim

\* C29: a query embedding given up after a transient provider error has
\* had MaxAttempts attempts, and a document text left without a vector by
\* a transient error has been asked of the provider MaxAttempts times
C29_TransientRetried ==
    /\ \A q \in QueryIds :
           (qry[q].pc = "done" /\ qry[q].result = "None" /\ ~IsBlank(qry[q].text))
               => qry[q].attempt = MaxAttempts
    /\ \A b \in DOMAIN batch_status :
           batch_status[b] = "failed"
               => \A t \in hist.bad : hist.asked[t] >= MaxAttempts

\* C30: a query embedding is never given up because of rate-limit errors
\* alone; the only way to RetryError is MaxAttempts rate-limit errors
C30_RateLimitKeepsBudget ==
    \A q \in QueryIds : ~(qry[q].pc = "done" /\ qry[q].result = "RetryError")

\* C23: when the router has a template for the query, the statement comes
\* from the template if the caller of the router gave a table hint, and
\* from the LLM if it gave none
C23_TemplateNeedsCallerHint ==
    (chat.template /\ chat.sql # <<>>)
        => IF chat.hint # NoHint THEN chat.sql_from = "template"
           ELSE chat.sql_from = "llm"

\* C24: while a search whose query matches a superlative pattern runs, no
\* request for its query is in flight to the embedding provider
C24_AggregationBypassesProvider ==
    srch.agg # "none" => \A q \in QueryIds : qry[q].pc # "embed"

\* C25: a search never ends by raising the database's error to its caller
C25_StoreFailureGivesEmptyList ==
    srch.pc = "done" => srch.result # "StoreError"

\* C31: neither in-memory cache ever holds more entries than its ceiling
\* (the eviction of the oldest entry is what has to keep it so).
C31_CachesWithinCeiling ==
    /\ Len(svc_cache) <= CacheCeiling
    /\ Cardinality(DOMAIN cache) <= CacheCeiling

\* C32: a single caller is admitted at once while fewer than MaxRequests
\* admissions lie in the window; otherwise it sleeps and is admitted only
\* when the oldest admission has left the window, so that an admission and
\* the MaxRequests-th one after it are WindowSeconds or more apart.
SoloCalls == rl'.callers[1].calls = rl.callers[1].calls + 1

SoloWakes == rl.callers[1].pc = "sleeping" /\ rl'.callers[1].pc = "idle"

C32_SoloStep ==
    /\ (SoloCalls /\ Len(CleanOld(rl.requests, rl.now)) < MaxRequests)
          => /\ rl'.callers[1].pc = "idle"
             /\ rl'.granted = Append(rl.granted, rl.now)
    /\ (SoloCalls /\ Len(CleanOld(rl.requests, rl.now)) >= MaxRequests)
          => /\ rl'.callers[1].pc = "sleeping"
             /\ rl'.granted = rl.granted
    /\ SoloWakes
          => /\ rl.now - Oldest(rl.requests) >= WindowSeconds
             /\ rl'.granted = Append(rl.granted, rl.now)

C32_Spaced ==
    \A i \in 1..Len(rl.granted) :
        i + MaxRequests <= Len(rl.granted)
            => rl.granted[i + MaxRequests] - rl.granted[i] >= WindowSeconds

C32_SingleCallerWaits == []C32_Spaced /\ [][C32_SoloStep]_vars

\* three calls in the same second: the third is admitted 61 seconds later
C32_Witness ==
    /\ rl.callers[1].calls = 3
    /\ rl.slept
    /\ rl.granted = <<0, 0, WindowSeconds + 1>>

\* a page of the running sync has been through the embedding queue
PageStep == Len(sync'.run.reports) = Len(sync.run.reports) + 1

\* what wait_for_batch returned for that page
PageReport == sync'.run.reports[Len(sync'.run.reports)]

\* an Embedding row is inserted or rewritten
RowsWritten ==
    \E id \in DOMAIN db'.emb : id \notin DOMAIN db.emb \/ db'.emb[id] # db.emb[id]

\* C33: the pages of a sync are taken one after the other in the order of
\* their offsets, and Embedding rows are written only in the step of a page
\* whose batch wait_for_batch has reported as completed.
C33_StoredAfterBatchCompleted ==
    [][/\ RowsWritten => PageStep /\ PageReport
       /\ PageStep =>
            /\ sync.run.offset = PageSize * Len(sync.run.reports)
            /\ sync'.run.pc = "page"
                  => sync'.run.offset = sync.run.offset + PageSize]_vars

\* both pages of the table were reported completed and stored in turn
C33_Witness ==
    /\ sync.run.reports = <<TRUE, TRUE>>
    /\ Cardinality(sync.run.wrote) = MaxRows
    /\ \A r \in sync.run.wrote :
          EmbId(sync.run.entry, db.kind, r) \in DOMAIN db.emb

\* C34: a page whose batch failed or timed out leaves the store as it was,
\* and the sync goes on to the next page (or, after the last page, ends as
\* completed) instead of ending in failure.
C34_FailedPageSkipped ==
    [][(PageStep /\ ~PageReport) =>
          /\ db'.emb = db.emb
          /\ sync'.run.outcome # "failed"
          /\ IF sync.run.offset + PageSize < sync.run.total
             THEN /\ sync'.run.pc = "page"
                  /\ sync'.run.offset = sync.run.offset + PageSize
             ELSE /\ sync'.run.pc = "done"
                  /\ sync'.run.outcome = "completed"]_vars

\* the first page failed, the second was embedded and stored
C34_Witness ==
    /\ sync.run.reports = <<FALSE, TRUE>>
    /\ sync.run.pc = "done"
    /\ sync.run.outcome = "completed"
    /\ sync.run.wrote # {}
    /\ Cardinality(sync.run.wrote) < MaxRows

\* C35: a table whose sync raised does not end the schema sync: the loop
\* goes on to the next table, and when the job is over every table of the
\* list has been through its own sync.
C35_Step ==
    (sync.pc = "tables" /\ sync'.active_jobs # sync.active_jobs
        /\ sync'.active_jobs[sync.tables[sync.i]] = "failed")
    => IF sync.i < Len(sync.tables)
       THEN sync'.pc = "tables" /\ sync'.i = sync.i + 1
       ELSE sync'.pc = "done" /\ sync'.status = "completed"

C35_AllTablesTried ==
    (sync.pc = "done" /\ sync.tables # <<>>)
    => /\ sync.status = "completed"
       /\ DOMAIN sync.active_jobs = {sync.tables[i] : i \in DOMAIN sync.tables}

C35_TableFailureDoesNotAbort == []C35_AllTablesTried /\ [][C35_Step]_vars

\* the first table of three failed and the two after it were synced
C35_Witness ==
    /\ sync.pc = "done"
    /\ Len(sync.tables) = MaxTables
    /\ sync.errors = <<sync.tables[1]>>
    /\ \A i \in 2..MaxTables : sync.active_jobs[sync.tables[i]] = "completed"

\* the texts waiting in the queue, in the order in which they will leave it
RECURSIVE Flat(_)
Flat(q) == IF q = <<>> THEN <<>> ELSE Head(q).texts \o Flat(Tail(q))

IsPrefix(s, t) == Len(s) <= Len(t) /\ SubSeq(t, 1, Len(s)) = s

\* task p has assembled a super-batch
Assembles(p) == proc[p].pc = "loop" /\ proc'[p].pc = "gen"

\* C36: a super-batch is the texts at the head of the queue, at most
\* SuperBatchMax of them and in queue order, and they leave the queue as
\* they enter the super-batch; every other step leaves the waiting texts in
\* place and at most appends texts behind them.
C36_AssemblyConservesTexts ==
    [][/\ \A p \in ProcIds : Assembles(p) =>
             /\ proc'[p].batch_texts # <<>>
             /\ Len(proc'[p].batch_texts) <= SuperBatchMax
             /\ proc'[p].batch_texts \o Flat(queue') = Flat(queue)
             /\ \A i \in 1..Len(proc'[p].batch_texts) :
                   proc'[p].batch_hashes[i] = TextHash(proc'[p].batch_texts[i])
       /\ (\A p \in ProcIds : ~Assembles(p)) => IsPrefix(Flat(queue), Flat(queue'))]_vars

\* a later part of a split submission is in a super-batch while texts of the
\* submission are still waiting
C36_Witness ==
    \E p \in ProcIds, b \in DOMAIN hist.parts :
        /\ proc[p].pc = "gen"
        /\ InSeq(b, proc[p].batch_ids)
        /\ hist.parts[b] >= 2
        /\ queue # <<>>
        /\ Head(queue).batch_id = b

\* C37: while texts wait in the queue, a processor task is inside its loop,
\* or a task has been scheduled and no other task holds the `processing`
\* flag that would turn it away.
C37_QueueHasProcessor ==
    queue # <<>> =>
        \/ \E p \in ProcIds : proc[p].pc \in LoopPcs
        \/ ~processing /\ \E p \in ProcIds : proc[p].pc = "scheduled"

\* add_batch came while the only processor was busy with a super-batch that
\* had emptied the queue: no task was created, and the texts wait for the
\* processor's next `while self.queue`
C37_Witness ==
    \E p \in ProcIds :
        /\ proc[p].pc \in LoopPcs \ {"loop"}
        /\ Len(proc[p].batch_texts) < SuperBatchMax
        /\ \A o \in ProcIds \ {p} : proc[o].pc \in {"unborn", "done"}
        /\ Len(queue) = 1
        /\ batch_status[Head(queue).batch_id] = "pending"

\* the store holds an Embedding row with the current content of source
\* row r, under whatever identifier
Fresh(r) ==
    \E id \in DOMAIN db.emb : db.emb[id].content = Text(r, db.src[r].ver)

\* C38: a row rewritten during a sync, and not since, has its new content
\* in the store once the next sync of the table, an incremental one whose
\* pages were all embedded, has completed.
C38_LiveUpdateNotLost ==
    \A x \in sync.live :
        (/\ sync.run.n = x[2] + 1
         /\ sync.run.mode = "incremental"
         /\ sync.run.pc = "done"
         /\ sync.run.outcome = "completed"
         /\ \A i \in DOMAIN sync.run.reports : sync.run.reports[i]
         /\ db.src[x[1]].ver = x[3])
        => Fresh(x[1])

\* the store holds an Embedding row made from a version of source row r
HasEmbedding(r) ==
    \E id \in DOMAIN db.emb :
        db.emb[id].content[1] = "row" /\ db.emb[id].content[2] = r

\* C39: when the last two real-time changes are an INSERT or UPDATE of a row
\* and then the DELETE of that row, the store holds no Embedding row of it.
C39_DeleteAfterUpsertLeavesNoRow ==
    LET n == Len(sync.changes)
    IN (/\ n >= 2
        /\ sync.changes[n][1] = "DELETE"
        /\ sync.changes[n - 1][1] \in {"INSERT", "UPDATE"}
        /\ sync.changes[n - 1][2] = sync.changes[n][2])
       => ~HasEmbedding(sync.changes[n][2])

\* C40: the entry counter of the service's cache equals the number of
\* entries the cache holds.
C40_CounterEqualsEntries == svc_cache_size = Len(svc_cache)

====
